---- MODULE Spec2Model ----
(***************************************************************************)
(* Rule compilation and execution engine of the mail triage program.       *)
(*                                                                         *)
(* Python strings are sequences of code points, so that title(), lower(),  *)
(* upper(), int(), strftime() and SQLite's LIKE / = / < / > are computed   *)
(* and never assumed.  Python values are tagged records: PyStr, PyInt,     *)
(* PyNone.  A dict is a record whose domain is the set of keys present.    *)
(***************************************************************************)
EXTENDS Integers, Sequences, FiniteSets, TLC

(***************************************************************************)
(* Bounds of the model.                                                    *)
(***************************************************************************)
MaxRules == 2

MaxConds == 2

\* largest day or month count tried in a date condition
MaxCount == 3

MaxEmails == 2

(***************************************************************************)
(* Python values.                                                          *)
(***************************************************************************)
PyNone == [t |-> "none"]

PyStr(s) == [t |-> "str", s |-> s]

PyInt(n) == [t |-> "int", n |-> n]

\* bool(v) as used by all([...]), "if destination", "if not email_id"
Truthy(v) ==
    CASE v.t = "none" -> FALSE
      [] v.t = "str"  -> v.s # <<>>
      [] v.t = "int"  -> v.n # 0

\* dict.get(key, default)
Get(d, key, default) == IF key \in DOMAIN d THEN d[key] ELSE default

(***************************************************************************)
(* Character conversions.                                                  *)
(***************************************************************************)
IsAsciiUpper(c) == c >= 65 /\ c <= 90

IsAsciiLower(c) == c >= 97 /\ c <= 122

\* SQLite folds only the 26 ASCII letters (sqlite3UpperToLower)
AsciiLower(c) == IF IsAsciiUpper(c) THEN c + 32 ELSE c

\* Python's str methods fold Latin-1 letters too (201 = E-acute, 233 = e-acute)
IsUpper(c) == IsAsciiUpper(c) \/ c = 201

IsLower(c) == IsAsciiLower(c) \/ c = 233

IsCased(c) == IsUpper(c) \/ IsLower(c)

LowerChar(c) == IF IsUpper(c) THEN c + 32 ELSE c

UpperChar(c) == IF IsLower(c) THEN c - 32 ELSE c

\* str.lower()
lower(s) == [i \in 1..Len(s) |-> LowerChar(s[i])]

\* str.upper()
upper(s) == [i \in 1..Len(s) |-> UpperChar(s[i])]

\* str.title(): a cased character is upper-cased at the start of a word and
\* lower-cased after another cased character
title(s) ==
    [i \in 1..Len(s) |->
        IF i > 1 /\ IsCased(s[i - 1]) THEN LowerChar(s[i]) ELSE UpperChar(s[i])]

IsDigit(c) == c >= 48 /\ c <= 57

RECURSIVE DigitsValue(_, _)
DigitsValue(s, acc) ==
    IF s = <<>> THEN acc ELSE DigitsValue(Tail(s), 10 * acc + (Head(s) - 48))

RECURSIVE StripLeft(_)
StripLeft(s) == IF s # <<>> /\ Head(s) = 32 THEN StripLeft(Tail(s)) ELSE s

RECURSIVE StripRight(_)
StripRight(s) ==
    IF s # <<>> /\ s[Len(s)] = 32 THEN StripRight(SubSeq(s, 1, Len(s) - 1)) ELSE s

\* the digits of an integer literal: an optional sign, then digits only
IsIntLiteral(body) ==
    /\ body # <<>>
    /\ IF Head(body) \in {43, 45}
       THEN Len(body) > 1 /\ \A i \in 2..Len(body) : IsDigit(body[i])
       ELSE \A i \in 1..Len(body) : IsDigit(body[i])

LiteralValue(body) ==
    IF Head(body) = 45 THEN 0 - DigitsValue(Tail(body), 0)
    ELSE IF Head(body) = 43 THEN DigitsValue(Tail(body), 0)
    ELSE DigitsValue(body, 0)

ParseLiteral(body) ==
    IF IsIntLiteral(body) THEN [ok |-> TRUE, n |-> LiteralValue(body)]
    ELSE [ok |-> FALSE, n |-> 0]

\* int(value): [ok, n]; ok = FALSE is ValueError / TypeError
\* a text that is no integer literal read as 0
ParseInt_Zero(v) ==
    IF v.t = "int" THEN [ok |-> TRUE, n |-> v.n] ELSE [ok |-> TRUE, n |-> 0]

ParseInt(v) ==
    IF v.t = "int" THEN [ok |-> TRUE, n |-> v.n]
    ELSE IF v.t # "str" THEN [ok |-> FALSE, n |-> 0]
    ELSE ParseLiteral(StripRight(StripLeft(v.s)))

RECURSIVE NatDigits(_)
NatDigits(n) == IF n < 10 THEN <<48 + n>> ELSE NatDigits(n \div 10) \o <<48 + (n % 10)>>

\* str(value) inside an f-string
ToStr(v) ==
    CASE v.t = "str" -> v.s
      [] v.t = "int" -> IF v.n < 0 THEN <<45>> \o NatDigits(0 - v.n) ELSE NatDigits(v.n)
      [] v.t = "none" -> <<78, 111, 110, 101>>

(***************************************************************************)
(* Clock: an instant is [day, sec], day counted from 1970-01-01 UTC.       *)
(***************************************************************************)
\* datetime - timedelta(days = n); the result must stay within
\* datetime.min .. datetime.max or OverflowError is raised
MinDay == 0 - 719162

MaxDay == 2932896

\* the target moved forward in time instead of back
MinusDays_Plus(now, n) == [day |-> now.day + n, sec |-> now.sec]

MinusDays(now, n) == [day |-> now.day - n, sec |-> now.sec]

InRange(instant) == instant.day >= MinDay /\ instant.day <= MaxDay

\* proleptic Gregorian date of a day number (days since 1970-01-01)
YearOfEra(doe) == (doe - doe \div 1460 + doe \div 36524 - doe \div 146096) \div 365

DayOfYear(doe, yoe) == doe - (365 * yoe + yoe \div 4 - yoe \div 100)

MonthIndex(doy) == (5 * doy + 2) \div 153

CivilOf(era, yoe, doy, mp) ==
    [y |-> yoe + era * 400 + (IF mp < 10 THEN 0 ELSE 1),
     m |-> IF mp < 10 THEN mp + 3 ELSE mp - 9,
     d |-> doy - (153 * mp + 2) \div 5 + 1]

CivilOfYear(era, yoe, doy) == CivilOf(era, yoe, doy, MonthIndex(doy))

CivilOfEra(era, doe, yoe) == CivilOfYear(era, yoe, DayOfYear(doe, yoe))

CivilOfShifted(z, era) == CivilOfEra(era, z - era * 146097, YearOfEra(z - era * 146097))

CivilFromDays(day) == CivilOfShifted(day + 719468, (day + 719468) \div 146097)

Pad2(n) == <<48 + (n \div 10), 48 + (n % 10)>>

Pad4(n) == <<48 + (n \div 1000), 48 + ((n \div 100) % 10)>> \o Pad2(n % 100)

\* strftime('%Y-%m-%d %H:%M:%S')
FormatDateTime(c, sec) ==
    Pad4(c.y) \o <<45>> \o Pad2(c.m) \o <<45>> \o Pad2(c.d) \o <<32>>
    \o Pad2(sec \div 3600) \o <<58>> \o Pad2((sec \div 60) % 60) \o <<58>>
    \o Pad2(sec % 60)

strftime(instant) == FormatDateTime(CivilFromDays(instant.day), instant.sec)

(***************************************************************************)
(* String literals of the program.                                         *)
(***************************************************************************)
s_contains == <<99, 111, 110, 116, 97, 105, 110, 115>>

s_does_not_contain == <<100, 111, 101, 115, 32, 110, 111, 116, 32, 99, 111, 110, 116, 97, 105, 110>>

s_equals == <<101, 113, 117, 97, 108, 115>>

s_does_not_equal == <<100, 111, 101, 115, 32, 110, 111, 116, 32, 101, 113, 117, 97, 108>>

s_is_less_than == <<105, 115, 32, 108, 101, 115, 115, 32, 116, 104, 97, 110>>

s_is_greater_than == <<105, 115, 32, 103, 114, 101, 97, 116, 101, 114, 32, 116, 104, 97, 110>>

s_days == <<100, 97, 121, 115>>

s_months == <<109, 111, 110, 116, 104, 115>>

s_Date_Received == <<68, 97, 116, 101, 32, 82, 101, 99, 101, 105, 118, 101, 100>>

s_Subject == <<83, 117, 98, 106, 101, 99, 116>>

s_From == <<70, 114, 111, 109>>

s_Message == <<77, 101, 115, 115, 97, 103, 101>>

s_unique_id == <<117, 110, 105, 113, 117, 101, 95, 105, 100>>

s_id == <<105, 100>>

s_all == <<97, 108, 108>>

s_Mark_as_Read == <<77, 97, 114, 107, 32, 97, 115, 32, 82, 101, 97, 100>>

s_Move_message == <<77, 111, 118, 101, 32, 109, 101, 115, 115, 97, 103, 101>>

s_UNREAD == <<85, 78, 82, 69, 65, 68>>

s_INBOX == <<73, 78, 66, 79, 88>>

(***************************************************************************)
(* RuleParser.build_condition                                              *)
(*                                                                         *)
(* A fragment [column, op] stands for the SQL text  "column" op ?  with    *)
(* its single placeholder.  The result is                                  *)
(*   [kind |-> "ok", sql, value]   a fragment and its bound value          *)
(*   [kind |-> "none"]             (None, None)                            *)
(*   [kind |-> "raise"]            an exception leaves the function        *)
(***************************************************************************)
Compiled(column, op, value) ==
    [kind |-> "ok", sql |-> [column |-> column, op |-> op], value |-> value]

NoneNone == [kind |-> "none"]

Raised == [kind |-> "raise"]

\* return f"\"{field_name}\" op ?", target_date.strftime(...), with
\* target_date = current_date - timedelta(days = n)
DateCondition(field_name, op, target_date) ==
    IF InRange(target_date)
    THEN Compiled(field_name, op, PyStr(strftime(target_date)))
    ELSE Raised

\* a month counted as 31 days
DateBranch_Months31(field_name, predicate, unit, value_int, current_date) ==
    IF ~value_int.ok THEN NoneNone
    ELSE IF unit = PyStr(s_days)
    THEN IF predicate = PyStr(s_is_less_than)
         THEN DateCondition(field_name, ">", MinusDays(current_date, value_int.n))
         ELSE DateCondition(field_name, "<", MinusDays(current_date, value_int.n))
    ELSE IF unit = PyStr(s_months)
    THEN IF predicate = PyStr(s_is_less_than)
         THEN DateCondition(field_name, ">", MinusDays(current_date, 31 * value_int.n))
         ELSE DateCondition(field_name, "<", MinusDays(current_date, 31 * value_int.n))
    ELSE NoneNone

\* both date predicates compiled to the same comparison
DateBranch_SameSide(field_name, predicate, unit, value_int, current_date) ==
    IF ~value_int.ok THEN NoneNone
    ELSE IF unit = PyStr(s_days)
    THEN DateCondition(field_name, ">", MinusDays(current_date, value_int.n))
    ELSE IF unit = PyStr(s_months)
    THEN DateCondition(field_name, ">", MinusDays(current_date, 30 * value_int.n))
    ELSE NoneNone

\* the body of the try block, after value_int = int(value)
DateBranch(field_name, predicate, unit, value_int, current_date) ==
    IF ~value_int.ok THEN NoneNone
    ELSE IF unit = PyStr(s_days)
    THEN IF predicate = PyStr(s_is_less_than)
         THEN DateCondition(field_name, ">", MinusDays(current_date, value_int.n))
         ELSE DateCondition(field_name, "<", MinusDays(current_date, value_int.n))
    ELSE IF unit = PyStr(s_months)
    THEN IF predicate = PyStr(s_is_less_than)
         THEN DateCondition(field_name, ">", MinusDays(current_date, 30 * value_int.n))
         ELSE DateCondition(field_name, "<", MinusDays(current_date, 30 * value_int.n))
    ELSE NoneNone

\* the pattern anchored at the start of the field
LikePattern_Prefix(value) == ToStr(value) \o <<37>>

\* f"%{value}%"
LikePattern(value) == <<37>> \o ToStr(value) \o <<37>>

\* the chain of predicate tests, after the required fields were read
Branches(field_name, predicate, value, unit, now) ==
    IF ~(field_name # <<>> /\ Truthy(predicate) /\ Truthy(value))
    THEN NoneNone
    ELSE IF predicate = PyStr(s_contains)
    THEN Compiled(field_name, "LIKE", PyStr(LikePattern(value)))
    ELSE IF predicate = PyStr(s_does_not_contain)
    THEN Compiled(field_name, "NOT LIKE", PyStr(LikePattern(value)))
    ELSE IF predicate = PyStr(s_equals)
    THEN Compiled(field_name, "=", value)
    ELSE IF predicate = PyStr(s_does_not_equal)
    THEN Compiled(field_name, "!=", value)
    ELSE IF /\ predicate \in {PyStr(s_is_less_than), PyStr(s_is_greater_than)}
            /\ field_name = s_Date_Received
    THEN DateBranch(field_name, predicate, unit, ParseInt(value), now)
    ELSE NoneNone

build_condition(condition, now) ==
    IF Get(condition, "field_name", PyStr(<<>>)).t # "str" THEN Raised
    ELSE Branches(title(Get(condition, "field_name", PyStr(<<>>)).s),
                  Get(condition, "predicate", PyNone),
                  Get(condition, "value", PyNone),
                  Get(condition, "unit", PyNone), now)

(***************************************************************************)
(* RuleParser.create_sql_query                                             *)
(*                                                                         *)
(* The predicate string is the sequence of its tokens: fragments           *)
(* separated by [join |-> "AND"] or [join |-> "OR"]; "" is <<>>.           *)
(***************************************************************************)
RECURSIVE Join(_, _)
Join(sep, parts) ==
    IF parts = <<>> THEN <<>>
    ELSE IF Len(parts) = 1 THEN parts
    ELSE <<Head(parts), [join |-> sep]>> \o Join(sep, Tail(parts))

\* the for loop over rule_conditions: appends to both lists in step
RECURSIVE CompileConditions(_, _, _, _)
RECURSIVE AppendCompiled(_, _, _, _, _)
\* the bound value put in front of the list instead of at its end
AppendCompiled_ValueFirst(built, rest, now, sql_conditions, condition_values) ==
    IF built.kind = "raise"
    THEN [raised |-> TRUE, sqls |-> <<>>, values |-> <<>>]
    ELSE IF built.kind = "ok"
    THEN CompileConditions(rest, now, Append(sql_conditions, built.sql),
                           <<built.value>> \o condition_values)
    ELSE CompileConditions(rest, now, sql_conditions, condition_values)

AppendCompiled(built, rest, now, sql_conditions, condition_values) ==
    IF built.kind = "raise"
    THEN [raised |-> TRUE, sqls |-> <<>>, values |-> <<>>]
    ELSE IF built.kind = "ok"
    THEN CompileConditions(rest, now, Append(sql_conditions, built.sql),
                           Append(condition_values, built.value))
    ELSE CompileConditions(rest, now, sql_conditions, condition_values)

CompileConditions(rule_conditions, now, sql_conditions, condition_values) ==
    IF rule_conditions = <<>>
    THEN [raised |-> FALSE, sqls |-> sql_conditions, values |-> condition_values]
    ELSE AppendCompiled(build_condition(Head(rule_conditions), now),
                        Tail(rule_conditions), now, sql_conditions, condition_values)

\* AND and OR exchanged
CombineConditions_Swapped(rule_collection_predicate, loop) ==
    IF loop.raised THEN [raised |-> TRUE, str |-> <<>>, values |-> <<>>]
    ELSE IF loop.sqls = <<>> THEN [raised |-> FALSE, str |-> <<>>, values |-> <<>>]
    ELSE IF rule_collection_predicate.t # "str"
    THEN [raised |-> TRUE, str |-> <<>>, values |-> <<>>]
    ELSE IF lower(rule_collection_predicate.s) = s_all
    THEN [raised |-> FALSE, str |-> Join("OR", loop.sqls), values |-> loop.values]
    ELSE [raised |-> FALSE, str |-> Join("AND", loop.sqls), values |-> loop.values]

\* the tail of create_sql_query: no fragment gives ("", []), otherwise the
\* fragments are joined by the rule's collection predicate
CombineConditions(rule_collection_predicate, loop) ==
    IF loop.raised THEN [raised |-> TRUE, str |-> <<>>, values |-> <<>>]
    ELSE IF loop.sqls = <<>> THEN [raised |-> FALSE, str |-> <<>>, values |-> <<>>]
    ELSE IF rule_collection_predicate.t # "str"
    THEN [raised |-> TRUE, str |-> <<>>, values |-> <<>>]
    ELSE IF lower(rule_collection_predicate.s) = s_all
    THEN [raised |-> FALSE, str |-> Join("AND", loop.sqls), values |-> loop.values]
    ELSE [raised |-> FALSE, str |-> Join("OR", loop.sqls), values |-> loop.values]

create_sql_query(rule, now) ==
    CombineConditions(Get(rule, "rule_collection_predicate", PyStr(s_all)),
                      CompileConditions(Get(rule, "rules", <<>>), now, <<>>, <<>>))

(***************************************************************************)
(* SQLiteDataManager.read: SELECT * FROM emails WHERE condition, with      *)
(* condition_values bound positionally to the placeholders.                *)
(*                                                                         *)
(* A row maps each column name to its value.  The table is declared        *)
(* without a collation, so  =  !=  <  >  compare text by code point        *)
(* (BINARY), while LIKE folds the case of ASCII letters and treats % and   *)
(* _ as wildcards.                                                         *)
(***************************************************************************)
AsciiLowerStr(s) == [i \in 1..Len(s) |-> AsciiLower(s[i])]

\* SQLite matches identifiers without regard to ASCII case; a double-quoted
\* identifier that names no column is read as a string literal
ColumnValue(row, name) ==
    IF \E k \in DOMAIN row : AsciiLowerStr(k) = AsciiLowerStr(name)
    THEN row[CHOOSE k \in DOMAIN row : AsciiLowerStr(k) = AsciiLowerStr(name)]
    ELSE PyStr(name)

RECURSIVE LikeMatch(_, _)
LikeMatch(pattern, text) ==
    IF pattern = <<>> THEN text = <<>>
    ELSE IF Head(pattern) = 37
    THEN LikeMatch(Tail(pattern), text)
         \/ (text # <<>> /\ LikeMatch(pattern, Tail(text)))
    ELSE /\ text # <<>>
         /\ (Head(pattern) = 95 \/ AsciiLower(Head(pattern)) = AsciiLower(Head(text)))
         /\ LikeMatch(Tail(pattern), Tail(text))

\* memcmp order of two texts
RECURSIVE TextLess(_, _)
TextLess(a, b) ==
    IF b = <<>> THEN FALSE
    ELSE IF a = <<>> THEN TRUE
    ELSE IF Head(a) # Head(b) THEN Head(a) < Head(b)
    ELSE TextLess(Tail(a), Tail(b))

\* one fragment  "column" op ?  with its bound value, on one row
FragmentHolds(fragment, bound, row) ==
    LET cell == ColumnValue(row, fragment.column)
    IN  /\ cell.t # "none"
        /\ bound.t # "none"
        /\ LET lhs == ToStr(cell)
               rhs == ToStr(bound)
           IN  CASE fragment.op = "LIKE"     -> LikeMatch(rhs, lhs)
                 [] fragment.op = "NOT LIKE" -> ~LikeMatch(rhs, lhs)
                 [] fragment.op = "="        -> lhs = rhs
                 [] fragment.op = "!="       -> lhs # rhs
                 [] fragment.op = ">"        -> TextLess(rhs, lhs)
                 [] fragment.op = "<"        -> TextLess(lhs, rhs)

\* fragments stand at the odd positions of the predicate, the k-th
\* placeholder takes the k-th bound value
NumPlaceholders(condition) == (Len(condition) + 1) \div 2

\* AND binds tighter than OR: the predicate holds when all fragments of one
\* of its AND-groups hold
SameGroup(condition, a, b) ==
    \A k \in 1..NumPlaceholders(condition) :
        (k >= a /\ k < b) \/ (k >= b /\ k < a) => condition[2 * k].join = "AND"

WhereHolds(condition, condition_values, row) ==
    \E a \in 1..NumPlaceholders(condition) :
        \A b \in 1..NumPlaceholders(condition) :
            SameGroup(condition, a, b)
                => FragmentHolds(condition[2 * b - 1], condition_values[b], row)

\* the WHERE clause ignored: every row is returned
read_Unfiltered(table, condition, condition_values) == table

read(table, condition, condition_values) ==
    IF condition = <<>> THEN table
    ELSE IF Len(condition_values) # NumPlaceholders(condition) THEN <<>>
    ELSE SelectSeq(table, LAMBDA row : WhereHolds(condition, condition_values, row))

(***************************************************************************)
(* EmailOperationsBundler.bundle_email_operations                          *)
(***************************************************************************)
MarkAsReadOperation == [kind |-> "MarkAsRead"]

\* the label kept as the rule spells it
MoveToLabelOperation_AsGiven(label) == [kind |-> "MoveToLabel", label |-> label]

\* MoveToLabelOperation.__init__: self.label = label.upper()
MoveToLabelOperation(label) == [kind |-> "MoveToLabel", label |-> upper(label)]

\* the operation put behind those of the later descriptors
BundleOne_Reversed(action, destination, rest) ==
    IF action = PyStr(s_Mark_as_Read)
    THEN [raised |-> rest.raised, ops |-> rest.ops \o <<MarkAsReadOperation>>]
    ELSE IF action = PyStr(s_Move_message) /\ Truthy(destination)
    THEN IF destination.t # "str"
         THEN [raised |-> TRUE, ops |-> <<>>]
         ELSE [raised |-> rest.raised,
               ops |-> rest.ops \o <<MoveToLabelOperation(destination.s)>>]
    ELSE rest

\* one descriptor of the loop, rest: the bundle of the descriptors after it
BundleOne(action, destination, rest) ==
    IF action = PyStr(s_Mark_as_Read)
    THEN [raised |-> rest.raised, ops |-> <<MarkAsReadOperation>> \o rest.ops]
    ELSE IF action = PyStr(s_Move_message) /\ Truthy(destination)
    THEN IF destination.t # "str"
         THEN [raised |-> TRUE, ops |-> <<>>]
         ELSE [raised |-> rest.raised,
               ops |-> <<MoveToLabelOperation(destination.s)>> \o rest.ops]
    ELSE rest

RECURSIVE bundle_email_operations(_)
bundle_email_operations(rule_operations) ==
    IF rule_operations = <<>> THEN [raised |-> FALSE, ops |-> <<>>]
    ELSE BundleOne(Get(Head(rule_operations), "action", PyNone),
                   Get(Head(rule_operations), "destination", PyNone),
                   bundle_email_operations(Tail(rule_operations)))

(***************************************************************************)
(* GmailService.update_email on one message of the remote mailbox.         *)
(* labels: the label set of the message; remote_ok: whether the remote     *)
(* calls of this update succeed (an exception is caught and gives False).  *)
(***************************************************************************)
\* marking as read puts UNREAD on a message that does not carry it
update_email_Toggles(labels, mark_as_read, move_to_label, remote_ok) ==
    IF ~remote_ok \/ (~mark_as_read /\ ~Truthy(move_to_label))
    THEN [result |-> FALSE, labels |-> labels]
    ELSE IF mark_as_read
    THEN [result |-> TRUE,
          labels |-> IF s_UNREAD \in labels
                     THEN labels \ {s_UNREAD} ELSE labels \cup {s_UNREAD}]
    ELSE [result |-> TRUE,
          labels |-> (labels \ (IF move_to_label.s # s_INBOX THEN {s_INBOX} ELSE {}))
                        \cup {move_to_label.s}]

\* the modify call issued, and True returned, whatever labels the message has
update_email_AlwaysModifies(labels, mark_as_read, move_to_label, remote_ok) ==
    IF ~remote_ok \/ (~mark_as_read /\ ~Truthy(move_to_label))
    THEN [result |-> FALSE, labels |-> labels]
    ELSE [result |-> TRUE,
          labels |-> (labels \ ((IF mark_as_read THEN {s_UNREAD} ELSE {})
                                 \cup (IF Truthy(move_to_label) /\ move_to_label.s # s_INBOX
                                       THEN {s_INBOX} ELSE {})))
                        \cup (IF Truthy(move_to_label) THEN {move_to_label.s} ELSE {})]

update_email(labels, mark_as_read, move_to_label, remote_ok) ==
    IF ~mark_as_read /\ ~Truthy(move_to_label)
    THEN [result |-> FALSE, labels |-> labels]
    ELSE IF ~remote_ok
    THEN [result |-> FALSE, labels |-> labels]
    ELSE LET unread == IF mark_as_read /\ s_UNREAD \in labels THEN {s_UNREAD} ELSE {}
             add    == IF Truthy(move_to_label) THEN {move_to_label.s} ELSE {}
             inbox  == IF /\ Truthy(move_to_label)
                          /\ move_to_label.s # s_INBOX
                          /\ s_INBOX \in labels
                       THEN {s_INBOX} ELSE {}
         IN  IF unread \cup add \cup inbox # {}
             THEN [result |-> TRUE, labels |-> (labels \ (unread \cup inbox)) \cup add]
             ELSE [result |-> FALSE, labels |-> labels]

\* MarkAsReadOperation.apply / MoveToLabelOperation.apply
apply(operation, labels, remote_ok) ==
    IF operation.kind = "MarkAsRead"
    THEN update_email(labels, TRUE, PyNone, remote_ok)
    ELSE update_email(labels, FALSE, PyStr(operation.label), remote_ok)

(***************************************************************************)
(* State.                                                                  *)
(*   rules_file        content of the rule file                            *)
(*   emails            rows of the emails table, in rowid order            *)
(*   mailbox           remote label set of each message id                 *)
(*   now               the UTC clock read by build_condition               *)
(*   pc                position of run_operations                          *)
(*   rules .. success_count   locals of run_operations                     *)
(*   ret               value returned by run_operations                    *)
(*   queries, calls, printed   what the run did: store reads, mail-service *)
(*                     updates (remote: whether the remote calls of the    *)
(*                     update went through), and the per-rule counts it    *)
(*                     printed                                             *)
(*   run, first        which run of run_operations this is, and what the   *)
(*                     first run left behind                               *)
(*   fpc               position of fetch_and_store_emails                  *)
(*   fetched_emails, fetch_i   its locals emails and i                     *)
(*   fetch_ret         what it returned, or the exception it let escape    *)
(*   fetches           number of calls of fetch_and_store_emails so far    *)
(***************************************************************************)
VARIABLES rules_file, emails, mailbox, now, pc, rules, r, condition_str,
          condition_values, matching_emails, email_operations, e, j,
          is_success, rule_success_count, success_count, ret,
          queries, calls, printed,
          run, first, fpc, fetched_emails, fetch_i, fetch_ret, fetches

vars == <<rules_file, emails, mailbox, now, pc, rules, r, condition_str,
          condition_values, matching_emails, email_operations, e, j,
          is_success, rule_success_count, success_count, ret,
          queries, calls, printed,
          run, first, fpc, fetched_emails, fetch_i, fetch_ret, fetches>>

locals == <<rules, r, condition_str, condition_values, matching_emails,
            email_operations, e, j, is_success, rule_success_count,
            success_count>>

\* the state of the other entry point and of the earlier run
others == <<run, first, fpc, fetched_emails, fetch_i, fetch_ret, fetches>>

\* what a run of run_operations never assigns
inputs == <<rules_file, emails, now, others>>

NotReturned == [t |-> "running"]

(***************************************************************************)
(* Inputs.                                                                 *)
(***************************************************************************)
\* sequences over S of length at most n
SeqUpTo(S, n) == UNION {[1..k -> S] : k \in 0..n}

\* the subsequences of list of length at most n, order kept
RECURSIVE SubSeqs(_)
SubSeqs(list) ==
    IF list = <<>> THEN {<<>>}
    ELSE LET rest == SubSeqs(Tail(list))
         IN  rest \cup {<<Head(list)>> \o x : x \in rest}

SubSeqsUpTo(list, n) == {x \in SubSeqs(list) : Len(x) <= n}

Condition(field_name, predicate, value) ==
    [field_name |-> PyStr(field_name), predicate |-> PyStr(predicate),
     value |-> PyStr(value)]

DateRule(predicate, value, unit) ==
    [field_name |-> PyStr(s_Date_Received), predicate |-> PyStr(predicate),
     value |-> PyStr(value), unit |-> PyStr(unit)]

Rule(collection, conditions, operations) ==
    [rule_collection_predicate |-> PyStr(collection), rules |-> conditions,
     operations |-> operations]

Row(id, unique_id, subject, from, message, received) ==
    (s_id :> PyInt(id)) @@ (s_unique_id :> unique_id) @@ (s_Subject :> PyStr(subject))
    @@ (s_From :> PyStr(from)) @@ (s_Message :> PyStr(message))
    @@ (s_Date_Received :> PyStr(strftime(received)))

\* 2024-03-01 00:00:00 UTC
Clock1 == [day |-> 19783, sec |-> 0]

MarkAsRead == [action |-> PyStr(s_Mark_as_Read)]

MoveMessage(destination) ==
    [action |-> PyStr(s_Move_message), destination |-> destination]

\* rule files of the engine runs: subject "Te", sender "x", labels "work" and
\* "Work"
EngineRules ==
    { Rule(s_all, <<Condition(s_Subject, s_contains, <<84, 101>>)>>,
           <<MarkAsRead, MoveMessage(PyStr(<<119, 111, 114, 107>>))>>),
      Rule(<<97, 110, 121>>,
           <<Condition(s_From, s_equals, <<120>>),
             DateRule(s_is_less_than, <<49>>, s_days)>>,
           <<MarkAsRead>>),
      Rule(s_all, <<DateRule(s_is_less_than, <<120>>, s_days)>>, <<MarkAsRead>>),
      Rule(s_all, <<Condition(s_Subject, s_contains, <<84, 101>>)>>,
           <<MarkAsRead, MoveMessage(PyInt(5))>>),
      Rule(s_all, <<Condition(s_Subject, s_contains, <<84, 101>>)>>,
           <<[action |-> PyStr(<<120>>)], [action |-> PyStr(s_Move_message)]>>),
      [rule_collection_predicate |-> PyInt(1),
       rules |-> <<Condition(s_Subject, s_contains, <<84, 101>>)>>,
       operations |-> <<MarkAsRead>>],
      Rule(s_all, <<Condition(s_Subject, s_contains, <<84, 101>>)>>,
           <<MoveMessage(PyStr(<<87, 111, 114, 107>>)), [action |-> PyStr(<<120>>)],
             MoveMessage(PyStr(<<>>)), MarkAsRead>>) }

\* the first row has no unique_id
EngineRows ==
    << Row(1, PyNone, <<84, 69>>, <<120>>, <<>>, [day |-> 19700, sec |-> 0]),
       Row(2, PyStr(<<97>>), <<84, 101>>, <<120>>, <<>>, [day |-> 19783, sec |-> 0]),
       Row(3, PyStr(<<98>>), <<97, 98>>, <<88>>, <<>>, [day |-> 19783, sec |-> 0]) >>

MessageIds == {<<97>>, <<98>>}

s_any == <<97, 110, 121>>

\* "all", "any" and the upper-case spelling "ALL"
CollectionPredicates == {s_all, s_any, <<65, 76, 76>>}

\* text conditions of the compiler runs: subjects "Te" / "TE", sender "x", a
\* message text with E-acute, and a condition that does not compile (empty
\* value)
Conditions ==
    { Condition(<<115, 117, 98, 106, 101, 99, 116>>, s_contains, <<84, 101>>),
      Condition(s_Subject, s_does_not_contain, <<84, 69>>),
      Condition(s_From, s_equals, <<120>>),
      Condition(s_From, s_does_not_equal, <<120>>),
      Condition(s_Message, s_contains, <<201>>),
      Condition(s_Subject, s_contains, <<>>) }

\* date conditions: 1 day, 1 month and -1 month back, and two conditions
\* that do not compile (value "x" for a count, no unit)
DateConditions ==
    { DateRule(s_is_less_than, <<49>>, s_days),
      DateRule(s_is_greater_than, <<49>>, s_days),
      DateRule(s_is_less_than, <<49>>, s_months),
      DateRule(s_is_greater_than, <<45, 49>>, s_months),
      DateRule(s_is_less_than, <<120>>, s_days),
      Condition(s_Date_Received, s_is_greater_than, <<49>>) }

CompileRules ==
    { Rule(collection, conditions, <<MarkAsRead>>) :
        collection \in CollectionPredicates,
        conditions \in SeqUpTo(Conditions, MaxConds) }

DateRules ==
    { Rule(collection, conditions, <<MarkAsRead>>) :
        collection \in CollectionPredicates,
        conditions \in SeqUpTo(DateConditions, MaxConds) }

\* receive instants of the stored rows: 2024-02-29 12:00:00,
\* 2024-01-31 00:00:00 and 2024-03-31 00:00:00
RowInstants ==
    << [day |-> 19782, sec |-> 43200],
       [day |-> 19753, sec |-> 0],
       [day |-> 19813, sec |-> 0] >>

\* subjects "aTE", "te", "ab"; senders "X", "x", "y"; messages e-acute, "", E-acute
CompileRows ==
    << Row(1, PyStr(<<97>>), <<97, 84, 69>>, <<88>>, <<233>>, RowInstants[1]),
       Row(2, PyStr(<<98>>), <<116, 101>>, <<120>>, <<>>, RowInstants[2]),
       Row(3, PyStr(<<99>>), <<97, 98>>, <<121>>, <<201>>, RowInstants[3]) >>

\* 2024-03-01 00:00:00 and 12:00:00 UTC
Clocks == {Clock1, [day |-> 19783, sec |-> 43200]}

\* a key the rule file does not give
Absent == [t |-> "absent"]

\* the condition with the keys that are given
ConditionOf(field_name, predicate, value, unit) ==
    LET full == [field_name |-> field_name, predicate |-> predicate,
                 value |-> value, unit |-> unit]
    IN  [k \in {key \in DOMAIN full : full[key] # Absent} |-> full[k]]

s_foo == <<102, 111, 111>>

s_weeks == <<119, 101, 101, 107, 115>>

\* no field, "", "Subject", "From", "date received", and "foo", which names no
\* column
FieldNames ==
    {Absent, PyStr(<<>>), PyStr(s_Subject), PyStr(s_From),
     PyStr(<<100, 97, 116, 101, 32, 114, 101, 99, 101, 105, 118, 101, 100>>),
     PyStr(s_foo)}

\* no predicate, the six predicates, and "x", which is none of them
Predicates ==
    {Absent, PyStr(s_contains), PyStr(s_does_not_contain), PyStr(s_equals),
     PyStr(s_does_not_equal), PyStr(s_is_less_than), PyStr(s_is_greater_than),
     PyStr(<<120>>)}

\* no value, "", "1" and "x"
Values == {Absent, PyStr(<<>>), PyStr(<<49>>), PyStr(<<120>>)}

\* no unit, "days", "months" and "weeks"
Units == {Absent, PyStr(s_days), PyStr(s_months), PyStr(s_weeks)}

\* rules of one condition, with every combination of the keys above
ConditionRules ==
    { Rule(s_all, <<ConditionOf(field_name, predicate, value, unit)>>, <<MarkAsRead>>) :
        field_name \in FieldNames, predicate \in Predicates,
        value \in Values, unit \in Units }

\* the remote mailbox before the run: every message unread, or every message
\* read
Mailboxes ==
    { [id \in MessageIds |-> labels] : labels \in {{s_UNREAD, s_INBOX}, {s_INBOX}} }

(***************************************************************************)
(* Init: RuleOperations constructed, run_operations about to start.        *)
(***************************************************************************)
InitLocals ==
    /\ pc = "load"
    /\ rules = <<>>
    /\ r = 1
    /\ condition_str = <<>>
    /\ condition_values = <<>>
    /\ matching_emails = <<>>
    /\ email_operations = <<>>
    /\ e = 1
    /\ j = 1
    /\ is_success = FALSE
    /\ rule_success_count = 0
    /\ success_count = 0
    /\ ret = NotReturned
    /\ queries = <<>>
    /\ calls = <<>>
    /\ printed = <<>>

\* no run before this one
NoRun == [mailbox |-> <<>>, ret |-> NotReturned, clean |-> FALSE, queries |-> <<>>]

\* first run, fetch_and_store_emails not called
InitOthers ==
    /\ run = 1
    /\ first = NoRun
    /\ fpc = "idle"
    /\ fetched_emails = <<>>
    /\ fetch_i = 1
    /\ fetch_ret = NotReturned
    /\ fetches = 0

\* the compiler runs: one rule, drawn with its conditions, the stored rows and
\* the clock
\* one rule of text conditions
InitCompile ==
    /\ rules_file \in {<<rule>> : rule \in CompileRules}
    /\ emails \in SubSeqsUpTo(CompileRows, MaxEmails)
    /\ mailbox = [id \in MessageIds |-> {s_UNREAD, s_INBOX}]
    /\ now = Clock1
    /\ InitLocals
    /\ InitOthers

\* one rule of date conditions
InitDates ==
    /\ rules_file \in {<<rule>> : rule \in DateRules}
    /\ emails \in SubSeqsUpTo(CompileRows, MaxEmails)
    /\ mailbox = [id \in MessageIds |-> {s_UNREAD, s_INBOX}]
    /\ now \in Clocks
    /\ InitLocals
    /\ InitOthers

\* one rule of one condition
InitConditions ==
    /\ rules_file \in {<<rule>> : rule \in ConditionRules}
    /\ emails \in SubSeqsUpTo(CompileRows, MaxEmails)
    /\ mailbox = [id \in MessageIds |-> {s_UNREAD, s_INBOX}]
    /\ now = Clock1
    /\ InitLocals
    /\ InitOthers

Init ==
    /\ rules_file \in SeqUpTo(EngineRules, MaxRules)
    /\ emails \in SubSeqsUpTo(EngineRows, MaxEmails)
    /\ mailbox \in Mailboxes
    /\ now = Clock1
    /\ InitLocals
    /\ InitOthers

(***************************************************************************)
(* RuleOperations.run_operations, one action per position.                 *)
(***************************************************************************)
\* the test of condition_str dropped: every rule goes on to the store query
HasCondition_Always(str) == TRUE

\* if condition_str:
HasCondition(str) == str # <<>>

\* the last operation decides alone
NoteResult_LastWins(flag, result) == result

\* if result: is_success = True
NoteResult(flag, result) == flag \/ result

\* the aggregate overwritten by the count of the last rule
AddCount_Overwrite(total, count) == count

\* success_count += rule_success_count
AddCount(total, count) == total + count

\* rules = self.file_handler.read(); success_count = 0
LoadRules ==
    /\ pc = "load"
    /\ rules' = rules_file
    /\ success_count' = 0
    /\ r' = 1
    /\ pc' = "rule"
    /\ UNCHANGED <<inputs, mailbox, condition_str, condition_values,
                   matching_emails, email_operations, e, j, is_success,
                   rule_success_count, ret, queries, calls, printed>>

\* file_handler.read() raises (file missing or not JSON): the except clause
\* of run_operations prints the error and returns None
LoadFailure ==
    /\ pc = "load"
    /\ ret' = PyNone
    /\ pc' = "done"
    /\ UNCHANGED <<inputs, mailbox, locals, queries, calls, printed>>

\* condition_str, condition_values = the pair create_sql_query returned;
\* present tells which branch of "if condition_str:" is taken
Compiles(query, present) ==
    /\ ~query.raised
    /\ HasCondition(query.str) = present
    /\ condition_str' = query.str
    /\ condition_values' = query.values

\* condition_str, condition_values = RuleParser.create_sql_query(rule),
\* condition_str not empty
CompilePredicate ==
    /\ pc = "rule"
    /\ r <= Len(rules)
    /\ Compiles(create_sql_query(rules[r], now), TRUE)
    /\ pc' = "query"
    /\ UNCHANGED <<inputs, mailbox, rules, r, matching_emails, email_operations,
                   e, j, is_success, rule_success_count, success_count, ret,
                   queries, calls, printed>>

\* condition_str empty: "Could not create SQL condition", next rule
SkipRule ==
    /\ pc = "rule"
    /\ r <= Len(rules)
    /\ Compiles(create_sql_query(rules[r], now), FALSE)
    /\ r' = r + 1
    /\ UNCHANGED <<inputs, mailbox, pc, rules, matching_emails, email_operations,
                   e, j, is_success, rule_success_count, success_count, ret,
                   queries, calls, printed>>

\* create_sql_query raises: caught by the except clause, returns None
CompileRaises ==
    /\ pc = "rule"
    /\ r <= Len(rules)
    /\ create_sql_query(rules[r], now).raised
    /\ ret' = PyNone
    /\ pc' = "done"
    /\ UNCHANGED <<inputs, mailbox, locals, queries, calls, printed>>

\* the records read are deleted from the table
Query_DeletesFound ==
    /\ pc = "query"
    /\ LET found == read(emails, condition_str, condition_values)
           operations == Get(rules[r], "operations", <<>>)
       IN  /\ matching_emails' = found
           /\ queries' = Append(queries, [rule |-> r, condition |-> condition_str,
                                          values |-> condition_values,
                                          found |-> found])
           /\ IF operations # <<>> /\ found # <<>>
              THEN pc' = "bundle" /\ r' = r
              ELSE pc' = "rule" /\ r' = r + 1
    /\ emails' = SelectSeq(emails, LAMBDA row :
                    \A m \in DOMAIN matching_emails' : matching_emails'[m] # row)
    /\ UNCHANGED <<rules_file, now, others, mailbox, rules, condition_str, condition_values,
                   email_operations, e, j, is_success, rule_success_count,
                   success_count, ret, calls, printed>>

\* the operations are bundled and the loop entered whatever the read returned
Query_AlwaysBundles ==
    /\ pc = "query"
    /\ LET found == read(emails, condition_str, condition_values)
           operations == Get(rules[r], "operations", <<>>)
       IN  /\ matching_emails' = found
           /\ queries' = Append(queries, [rule |-> r, condition |-> condition_str,
                                          values |-> condition_values,
                                          found |-> found])
           /\ IF operations # <<>>
              THEN pc' = "bundle" /\ r' = r
              ELSE pc' = "rule" /\ r' = r + 1
    /\ UNCHANGED <<inputs, mailbox, rules, condition_str, condition_values,
                   email_operations, e, j, is_success, rule_success_count,
                   success_count, ret, calls, printed>>

\* matching_emails = self.db.read(...); operations = rule.get('operations', [])
Query ==
    /\ pc = "query"
    /\ LET found == read(emails, condition_str, condition_values)
           operations == Get(rules[r], "operations", <<>>)
       IN  /\ matching_emails' = found
           /\ queries' = Append(queries, [rule |-> r, condition |-> condition_str,
                                          values |-> condition_values,
                                          found |-> found])
           /\ IF operations # <<>> /\ found # <<>>
              THEN pc' = "bundle" /\ r' = r
              ELSE pc' = "rule" /\ r' = r + 1
    /\ UNCHANGED <<inputs, mailbox, rules, condition_str, condition_values,
                   email_operations, e, j, is_success, rule_success_count,
                   success_count, ret, calls, printed>>

\* email_operations = bundle_email_operations(operations); rule_success_count = 0
BundleOperations ==
    /\ pc = "bundle"
    /\ LET bundle == bundle_email_operations(Get(rules[r], "operations", <<>>))
       IN  /\ ~bundle.raised
           /\ email_operations' = bundle.ops
    /\ rule_success_count' = 0
    /\ e' = 1
    /\ pc' = "email"
    /\ UNCHANGED <<inputs, mailbox, rules, r, condition_str, condition_values,
                   matching_emails, j, is_success, success_count, ret,
                   queries, calls, printed>>

\* the counts of the earlier rules returned in spite of the exception
BundleRaises_KeepsCount ==
    /\ pc = "bundle"
    /\ bundle_email_operations(Get(rules[r], "operations", <<>>)).raised
    /\ ret' = PyInt(success_count)
    /\ pc' = "done"
    /\ UNCHANGED <<inputs, mailbox, locals, queries, calls, printed>>

\* MoveToLabelOperation(destination) raises on a destination that is not a string
BundleRaises ==
    /\ pc = "bundle"
    /\ bundle_email_operations(Get(rules[r], "operations", <<>>)).raised
    /\ ret' = PyNone
    /\ pc' = "done"
    /\ UNCHANGED <<inputs, mailbox, locals, queries, calls, printed>>

\* the record without id ends the loop over the matching records
SkipEmail_EndsLoop ==
    /\ pc = "email"
    /\ e <= Len(matching_emails)
    /\ ~Truthy(Get(matching_emails[e], s_unique_id, PyNone))
    /\ e' = Len(matching_emails) + 1
    /\ UNCHANGED <<inputs, mailbox, pc, rules, r, condition_str, condition_values,
                   matching_emails, email_operations, j, is_success,
                   rule_success_count, success_count, ret, queries, calls, printed>>

\* email_id = email.get('unique_id') is falsy: warning, continue
SkipEmail ==
    /\ pc = "email"
    /\ e <= Len(matching_emails)
    /\ ~Truthy(Get(matching_emails[e], s_unique_id, PyNone))
    /\ e' = e + 1
    /\ UNCHANGED <<inputs, mailbox, pc, rules, r, condition_str, condition_values,
                   matching_emails, email_operations, j, is_success,
                   rule_success_count, success_count, ret, queries, calls, printed>>

\* is_success = False, enter the loop over email_operations
StartEmail ==
    /\ pc = "email"
    /\ e <= Len(matching_emails)
    /\ Truthy(Get(matching_emails[e], s_unique_id, PyNone))
    /\ is_success' = FALSE
    /\ j' = 1
    /\ pc' = "op"
    /\ UNCHANGED <<inputs, mailbox, rules, r, condition_str, condition_values,
                   matching_emails, email_operations, e, rule_success_count,
                   success_count, ret, queries, calls, printed>>

\* the operations of a record applied from the last to the first
ApplyOperation_LastFirst ==
    /\ pc = "op"
    /\ j <= Len(email_operations)
    /\ \E remote_ok \in BOOLEAN :
        LET email_id == matching_emails[e][s_unique_id].s
            known    == email_id \in DOMAIN mailbox
            outcome  == apply(email_operations[Len(email_operations) + 1 - j],
                              IF known THEN mailbox[email_id] ELSE {},
                              remote_ok /\ known)
        IN  /\ mailbox' = IF known
                          THEN [mailbox EXCEPT ![email_id] = outcome.labels]
                          ELSE mailbox
            /\ calls' = Append(calls, [rule |-> r, email |-> e,
                                       op |-> Len(email_operations) + 1 - j,
                                       message_id |-> email_id,
                                       operation |-> email_operations[Len(email_operations) + 1 - j],
                                       remote |-> remote_ok /\ known,
                                       result |-> outcome.result])
            /\ is_success' = NoteResult(is_success, outcome.result)
    /\ j' = j + 1
    /\ UNCHANGED <<inputs, pc, rules, r, condition_str, condition_values,
                   matching_emails, email_operations, e, rule_success_count,
                   success_count, ret, queries, printed>>

\* a failed remote call ends the run in the except clause
ApplyOperation_FailureAborts ==
    /\ pc = "op"
    /\ j <= Len(email_operations)
    /\ \E remote_ok \in BOOLEAN :
        LET email_id == matching_emails[e][s_unique_id].s
            known    == email_id \in DOMAIN mailbox
            outcome  == apply(email_operations[j],
                              IF known THEN mailbox[email_id] ELSE {},
                              remote_ok /\ known)
        IN  /\ mailbox' = IF known
                          THEN [mailbox EXCEPT ![email_id] = outcome.labels]
                          ELSE mailbox
            /\ calls' = Append(calls, [rule |-> r, email |-> e, op |-> j,
                                       message_id |-> email_id,
                                       operation |-> email_operations[j],
                                       remote |-> remote_ok /\ known,
                                       result |-> outcome.result])
            /\ is_success' = NoteResult(is_success, outcome.result)
            /\ pc' = IF remote_ok /\ known THEN pc ELSE "done"
            /\ ret' = IF remote_ok /\ known THEN ret ELSE PyNone
    /\ j' = j + 1
    /\ UNCHANGED <<inputs, rules, r, condition_str, condition_values,
                   matching_emails, email_operations, e, rule_success_count,
                   success_count, queries, printed>>

\* the operations left for a record are dropped once one has succeeded
ApplyOperation_StopsAtSuccess ==
    /\ pc = "op"
    /\ j <= Len(email_operations)
    /\ \E remote_ok \in BOOLEAN :
        LET email_id == matching_emails[e][s_unique_id].s
            known    == email_id \in DOMAIN mailbox
            outcome  == apply(email_operations[j],
                              IF known THEN mailbox[email_id] ELSE {},
                              remote_ok /\ known)
        IN  /\ mailbox' = IF known
                          THEN [mailbox EXCEPT ![email_id] = outcome.labels]
                          ELSE mailbox
            /\ calls' = Append(calls, [rule |-> r, email |-> e, op |-> j,
                                       message_id |-> email_id,
                                       operation |-> email_operations[j],
                                       remote |-> remote_ok /\ known,
                                       result |-> outcome.result])
            /\ is_success' = NoteResult(is_success, outcome.result)
            /\ j' = IF outcome.result THEN Len(email_operations) + 1 ELSE j + 1
    /\ UNCHANGED <<inputs, pc, rules, r, condition_str, condition_values,
                   matching_emails, email_operations, e, rule_success_count,
                   success_count, ret, queries, printed>>

\* result = operation.apply(email_id, self.gmail); if result: is_success = True
\* A message the mailbox does not hold makes the remote call fail.
ApplyOperation ==
    /\ pc = "op"
    /\ j <= Len(email_operations)
    /\ \E remote_ok \in BOOLEAN :
        LET email_id == matching_emails[e][s_unique_id].s
            known    == email_id \in DOMAIN mailbox
            outcome  == apply(email_operations[j],
                              IF known THEN mailbox[email_id] ELSE {},
                              remote_ok /\ known)
        IN  /\ mailbox' = IF known
                          THEN [mailbox EXCEPT ![email_id] = outcome.labels]
                          ELSE mailbox
            /\ calls' = Append(calls, [rule |-> r, email |-> e, op |-> j,
                                       message_id |-> email_id,
                                       operation |-> email_operations[j],
                                       remote |-> remote_ok /\ known,
                                       result |-> outcome.result])
            /\ is_success' = NoteResult(is_success, outcome.result)
    /\ j' = j + 1
    /\ UNCHANGED <<inputs, pc, rules, r, condition_str, condition_values,
                   matching_emails, email_operations, e, rule_success_count,
                   success_count, ret, queries, printed>>

\* a message an earlier rule has already handled successfully is not
\* counted again
FinishEmail_OncePerMessage ==
    /\ pc = "op"
    /\ j > Len(email_operations)
    /\ rule_success_count' = rule_success_count
          + (IF /\ is_success
                /\ \A c \in DOMAIN calls :
                      (calls[c].rule < r /\ calls[c].result)
                          => calls[c].message_id # matching_emails[e][s_unique_id].s
             THEN 1 ELSE 0)
    /\ e' = e + 1
    /\ pc' = "email"
    /\ UNCHANGED <<inputs, mailbox, rules, r, condition_str, condition_values,
                   matching_emails, email_operations, j, is_success,
                   success_count, ret, queries, calls, printed>>

\* rule_success_count += 1 if is_success else 0
FinishEmail ==
    /\ pc = "op"
    /\ j > Len(email_operations)
    /\ rule_success_count' = rule_success_count + (IF is_success THEN 1 ELSE 0)
    /\ e' = e + 1
    /\ pc' = "email"
    /\ UNCHANGED <<inputs, mailbox, rules, r, condition_str, condition_values,
                   matching_emails, email_operations, j, is_success,
                   success_count, ret, queries, calls, printed>>

\* print(rule_success_count); success_count += rule_success_count
FinishRule ==
    /\ pc = "email"
    /\ e > Len(matching_emails)
    /\ printed' = Append(printed, [rule |-> r, count |-> rule_success_count])
    /\ success_count' = AddCount(success_count, rule_success_count)
    /\ r' = r + 1
    /\ pc' = "rule"
    /\ UNCHANGED <<inputs, mailbox, rules, condition_str, condition_values,
                   matching_emails, email_operations, e, j, is_success,
                   rule_success_count, ret, queries, calls>>

\* return success_count
Return ==
    /\ pc = "rule"
    /\ r > Len(rules)
    /\ ret' = PyInt(success_count)
    /\ pc' = "done"
    /\ UNCHANGED <<inputs, mailbox, locals, queries, calls, printed>>

Next ==
    \/ LoadRules
    \/ LoadFailure
    \/ CompilePredicate
    \/ SkipRule
    \/ CompileRaises
    \/ Query
    \/ BundleOperations
    \/ BundleRaises
    \/ SkipEmail
    \/ StartEmail
    \/ ApplyOperation
    \/ FinishEmail
    \/ FinishRule
    \/ Return

Spec == Init /\ [][Next]_vars

\* create_sql_query and the store read applied to the drawn rule
NextCompile ==
    \/ LoadRules
    \/ CompilePredicate
    \/ SkipRule
    \/ Query
    \/ Return

SpecCompile == InitCompile /\ [][NextCompile]_vars

SpecDates == InitDates /\ [][NextCompile]_vars

SpecConditions == InitConditions /\ [][NextCompile]_vars

(***************************************************************************)
(* run_operations called a second time over the same store, rule file and  *)
(* remote mailbox.                                                         *)
(***************************************************************************)
\* rule files of the repeated runs: a rule that only marks as read, and a
\* rule on the age of the message that moves it to "work" and then back to
\* "inbox"
RerunRules ==
    { Rule(s_all, <<Condition(s_Subject, s_contains, <<84, 101>>)>>, <<MarkAsRead>>),
      Rule(s_all, <<DateRule(s_is_greater_than, <<49>>, s_days)>>,
           <<MoveMessage(PyStr(<<119, 111, 114, 107>>)),
             MoveMessage(PyStr(<<105, 110, 98, 111, 120>>))>>) }

\* the stored rows of the repeated runs: one received at the first reading
\* of the clock, one received long before it
RerunRows ==
    << Row(1, PyStr(<<97>>), <<84, 101>>, <<120>>, <<>>, [day |-> 19783, sec |-> 0]),
       Row(2, PyStr(<<98>>), <<97, 98>>, <<88>>, <<>>, [day |-> 19700, sec |-> 0]) >>

\* the clock at the start of the second run: the same reading, or two days on
LaterClocks(clock) == {clock, [day |-> clock.day + 2, sec |-> clock.sec]}

InitTwice ==
    /\ rules_file \in SeqUpTo(RerunRules, MaxRules) \ {<<>>}
    /\ emails \in SubSeqsUpTo(RerunRows, MaxEmails)
    /\ mailbox = [id \in MessageIds |-> {s_UNREAD, s_INBOX}]
    /\ now = Clock1
    /\ InitLocals
    /\ InitOthers

\* the first run has returned; run_operations is called again: its locals
\* start afresh, the store, the rule file and the remote mailbox are as the
\* first run left them
RunAgain ==
    /\ pc = "done"
    /\ run = 1
    /\ run' = 2
    /\ first' = [mailbox |-> mailbox, ret |-> ret,
                 clean |-> \A c \in DOMAIN calls : calls[c].remote,
                 queries |-> queries]
    /\ now' \in LaterClocks(now)
    /\ pc' = "load"
    /\ rules' = <<>>
    /\ r' = 1
    /\ condition_str' = <<>>
    /\ condition_values' = <<>>
    /\ matching_emails' = <<>>
    /\ email_operations' = <<>>
    /\ e' = 1
    /\ j' = 1
    /\ is_success' = FALSE
    /\ rule_success_count' = 0
    /\ success_count' = 0
    /\ ret' = NotReturned
    /\ queries' = <<>>
    /\ calls' = <<>>
    /\ printed' = <<>>
    /\ UNCHANGED <<rules_file, emails, mailbox, fpc, fetched_emails, fetch_i,
                   fetch_ret, fetches>>

NextTwice ==
    \/ LoadRules
    \/ CompilePredicate
    \/ Query
    \/ BundleOperations
    \/ StartEmail
    \/ ApplyOperation
    \/ FinishEmail
    \/ FinishRule
    \/ Return
    \/ RunAgain

SpecTwice == InitTwice /\ [][NextTwice]_vars

(***************************************************************************)
(* RuleOperations.fetch_and_store_emails over SQLiteDataManager.insert.     *)
(* A Date header is [wall, offset]: the wall-clock reading it spells and    *)
(* its UTC offset in minutes; the text "x" stands for a header that is not  *)
(* of the form '%a, %d %b %Y %H:%M:%S %z'.                                  *)
(***************************************************************************)
MaxFetches == 2

PyBool(b) == [t |-> "bool", b |-> b]

\* an exception that leaves the function
Escaped(error) == [t |-> "raised", error |-> error]

\* datetime + timedelta(minutes = m)
PlusMinutes(instant, m) ==
    [day |-> instant.day + (instant.sec + 60 * m) \div 86400,
     sec |-> (instant.sec + 60 * m) % 86400]

DateHeader(wall, offset) == [t |-> "date", wall |-> wall, offset |-> offset]

\* datetime.strptime(date_str, '%a, %d %b %Y %H:%M:%S %z'): an aware datetime
\* with the fields and the offset of the header, or ValueError
strptime(date_str) ==
    IF date_str.t = "date"
    THEN [raised |-> FALSE, wall |-> date_str.wall, offset |-> date_str.offset]
    ELSE [raised |-> TRUE, wall |-> Clock1, offset |-> 0]

\* parsed_date.strftime(...) prints the fields of the aware datetime as they
\* are; on ValueError datetime.now().strftime(...), the local time of the host
formatted_date(parsed_date, local_now) ==
    IF parsed_date.raised THEN strftime(local_now) ELSE strftime(parsed_date.wall)

\* the dictionary GmailService's parser builds for a message
Message(unique_id, date) ==
    (s_unique_id :> PyStr(unique_id)) @@ (s_Subject :> PyStr(<<115>>))
    @@ (s_From :> PyStr(<<102>>)) @@ (s_Date_Received :> date) @@ (s_Message :> PyNone)

\* the keys fetch_and_store_emails subscripts
MessageKeys == {s_unique_id, s_Subject, s_From, s_Date_Received, s_Message}

\* email_data: Message is email['Message'] if it is truthy, else ""
email_data(email, date_text) ==
    (s_unique_id :> email[s_unique_id]) @@ (s_Subject :> email[s_Subject])
    @@ (s_From :> email[s_From]) @@ (s_Date_Received :> PyStr(date_text))
    @@ (s_Message :> IF Truthy(email[s_Message]) THEN email[s_Message] ELSE PyStr(<<>>))

\* the table without its UNIQUE constraint: every insert adds a row
insert_NoConstraint(table, data) ==
    [table |-> Append(table, (s_id :> PyInt(Len(table) + 1)) @@ data),
     lastrowid |-> PyInt(Len(table) + 1)]

\* INSERT INTO emails: unique_id is TEXT UNIQUE, so a row whose unique_id is
\* already stored raises sqlite3.IntegrityError, which insert catches: nothing
\* is stored and None is returned; NULLs never collide; id is AUTOINCREMENT
insert(table, data) ==
    IF /\ data[s_unique_id].t # "none"
       /\ \E n \in DOMAIN table : table[n][s_unique_id] = data[s_unique_id]
    THEN [table |-> table, lastrowid |-> PyNone]
    ELSE [table |-> Append(table, (s_id :> PyInt(Len(table) + 1)) @@ data),
          lastrowid |-> PyInt(Len(table) + 1)]

\* 2024-03-01 04:30:00
Wall0430 == [day |-> 19783, sec |-> 16200]

\* 2024-03-01 10:00:00
Wall1000 == [day |-> 19783, sec |-> 36000]

\* UTC offsets in minutes: UTC, +05:30, -05:00
Offsets == {0, 330, 0 - 300}

\* one instant spelt with two offsets, and a header that does not parse
DateHeaders == {DateHeader(Wall0430, 0), DateHeader(Wall1000, 330), PyStr(<<120>>)}

\* what the mail service may return: a message with each of the headers,
\* another message, and a dictionary without Subject
Messages ==
    {Message(<<97>>, date) : date \in DateHeaders}
        \cup {Message(<<98>>, DateHeader(Wall1000, 330))}
        \cup {(s_unique_id :> PyStr(<<97>>)) @@ (s_From :> PyStr(<<102>>))
               @@ (s_Date_Received :> DateHeader(Wall0430, 0)) @@ (s_Message :> PyNone)}

\* an empty emails table, fetch_and_store_emails not yet called
InitFetch ==
    /\ rules_file = <<>>
    /\ emails = <<>>
    /\ mailbox = [id \in MessageIds |-> {s_UNREAD, s_INBOX}]
    /\ now = Clock1
    /\ InitLocals
    /\ InitOthers

\* what fetch_and_store_emails never assigns
engine == <<rules_file, mailbox, now, pc, locals, ret, queries, calls, printed,
            run, first>>

\* emails = self.gmail.fetch_emails(...) is empty: return False
FetchNone ==
    /\ fpc \in {"idle", "done"}
    /\ fetches < MaxFetches
    /\ fetches' = fetches + 1
    /\ fetched_emails' = <<>>
    /\ fetch_i' = 1
    /\ fetch_ret' = PyBool(FALSE)
    /\ fpc' = "done"
    /\ UNCHANGED <<engine, emails>>

\* emails = self.gmail.fetch_emails(...) is not empty: enter the loop
FetchSome ==
    /\ fpc \in {"idle", "done"}
    /\ fetches < MaxFetches
    /\ fetches' = fetches + 1
    /\ fetched_emails' \in SeqUpTo(Messages, MaxEmails) \ {<<>>}
    /\ fetch_i' = 1
    /\ fetch_ret' = NotReturned
    /\ fpc' = "loop"
    /\ UNCHANGED <<engine, emails>>

\* one turn of the loop: format the date, build email_data, self.db.insert;
\* the value insert returns is not looked at
StoreEmail ==
    /\ fpc = "loop"
    /\ fetch_i <= Len(fetched_emails)
    /\ MessageKeys \subseteq DOMAIN fetched_emails[fetch_i]
    /\ \E host_offset \in Offsets :
        emails' = insert(emails,
                         email_data(fetched_emails[fetch_i],
                                    formatted_date(
                                        strptime(fetched_emails[fetch_i][s_Date_Received]),
                                        PlusMinutes(now, host_offset)))).table
    /\ fetch_i' = fetch_i + 1
    /\ UNCHANGED <<engine, fpc, fetched_emails, fetch_ret, fetches>>

\* a subscript of the email raises KeyError: the except clause of
\* fetch_and_store_emails prints the error and then evaluates
\* traceback.format_exc(), but the module never imports traceback, so
\* NameError leaves the function
StoreRaises ==
    /\ fpc = "loop"
    /\ fetch_i <= Len(fetched_emails)
    /\ ~(MessageKeys \subseteq DOMAIN fetched_emails[fetch_i])
    /\ fetch_ret' = Escaped("NameError")
    /\ fpc' = "done"
    /\ UNCHANGED <<engine, emails, fetched_emails, fetch_i, fetches>>

\* the loop is over: return True
FetchReturn ==
    /\ fpc = "loop"
    /\ fetch_i > Len(fetched_emails)
    /\ fetch_ret' = PyBool(TRUE)
    /\ fpc' = "done"
    /\ UNCHANGED <<engine, emails, fetched_emails, fetch_i, fetches>>

NextFetch ==
    \/ FetchNone
    \/ FetchSome
    \/ StoreEmail
    \/ StoreRaises
    \/ FetchReturn

SpecFetch == InitFetch /\ [][NextFetch]_vars

TypeOK ==
    /\ pc \in {"load", "rule", "query", "bundle", "email", "op", "done"}
    /\ r \in 1..(MaxRules + 2)
    /\ success_count \in Nat

(***************************************************************************)
(* Properties of run_operations.                                           *)
(***************************************************************************)
\* a mail-service update of rule i on its n-th matching record returned True
Succeeded(i, n) ==
    \E k \in DOMAIN calls :
        calls[k].rule = i /\ calls[k].email = n /\ calls[k].result

\* the matching records of rule i on which some update returned True
SucceededRecords(i) == {n \in 1..Len(emails) : Succeeded(i, n)}

RECURSIVE SumOver(_, _)
SumOver(f, n) == IF n = 0 THEN 0 ELSE f[n] + SumOver(f, n - 1)

\* C1: between two records of a rule, the rule's success count is the number
\* of records handled so far on which at least one applied operation
\* returned True: a record is counted if and only if some operation on it
\* succeeded, whatever the results of the other operations.
C1_AnySuccessCounts ==
    pc = "email" =>
        rule_success_count = Cardinality({n \in 1..(e - 1) : Succeeded(r, n)})

\* a counted record whose first operation failed and whose second succeeded
C1_Witness ==
    /\ pc = "email"
    /\ rule_success_count >= 1
    /\ \E k \in DOMAIN calls :
        /\ k + 1 \in DOMAIN calls
        /\ calls[k].rule = r /\ calls[k + 1].rule = r
        /\ calls[k].email = calls[k + 1].email
        /\ calls[k].op = 1 /\ calls[k + 1].op = 2
        /\ ~calls[k].result
        /\ calls[k + 1].result

NoConditionCompiles(rule) ==
    \A k \in DOMAIN Get(rule, "rules", <<>>) :
        build_condition(Get(rule, "rules", <<>>)[k], now).kind = "none"

\* C3: a rule none of whose conditions compiles yields the empty predicate
\* ("", []); the run never leaves the rule position while it is at such a
\* rule (no store query, no bundling, no operation, no return from it), no
\* store read, mail-service update or per-rule count belongs to it, and the
\* aggregate stays the sum of the counts of the other rules.
C3_UncompilableRuleSkipped ==
    \A i \in 1..Len(rules) :
        NoConditionCompiles(rules[i]) =>
            /\ create_sql_query(rules[i], now)
                 = [raised |-> FALSE, str |-> <<>>, values |-> <<>>]
            /\ (r = i => pc = "rule")
            /\ \A k \in DOMAIN queries : queries[k].rule # i
            /\ \A k \in DOMAIN calls : calls[k].rule # i
            /\ \A k \in DOMAIN printed : printed[k].rule # i
            /\ (pc \in {"rule", "done"} /\ ret.t # "none" =>
                    success_count
                      = SumOver([k \in DOMAIN printed |-> printed[k].count],
                                Len(printed)))

\* an uncompilable rule was passed over and the next rule queried the store,
\* which holds records
C3_Witness ==
    \E i \in 1..Len(rules) :
        /\ NoConditionCompiles(rules[i])
        /\ emails # <<>>
        /\ \E k \in DOMAIN queries : queries[k].rule = i + 1

(***************************************************************************)
(* Properties of create_sql_query, build_condition and the store read.     *)
(***************************************************************************)
\* the conditions of the rule being handled
RuleConditions == Get(rules[r], "rules", <<>>)

\* the positions of the conditions for which build_condition did not
\* return (None, None), in condition order
KeptPositions(conditions) ==
    SelectSeq([i \in 1..Len(conditions) |-> i],
              LAMBDA i : build_condition(conditions[i], now).kind # "none")

\* the condition behind the p-th fragment of the compiled predicate
KeptCondition(p) == RuleConditions[KeptPositions(RuleConditions)[p]]

\* the p-th fragment and its bound value hold on the row
KeptHolds(p, row) == FragmentHolds(condition_str[2 * p - 1], condition_values[p], row)

HasPredicate(condition, predicate) == condition.predicate = PyStr(predicate)

CompiledHolds(built, row) ==
    built.kind = "ok" /\ FragmentHolds(built.sql, built.value, row)

IsAll(rule) == rule.rule_collection_predicate = PyStr(s_all)

\* the p-th compiled condition of a logged query holds on the row
QueryFragmentHolds(query, p, row) ==
    FragmentHolds(query.condition[2 * p - 1], query.values[p], row)

QueryAsClaimed(query, all) ==
    /\ \A i \in DOMAIN query.condition :
        i % 2 = 0 => query.condition[i] = [join |-> IF all THEN "AND" ELSE "OR"]
    /\ query.found
         = SelectSeq(emails,
                     LAMBDA row :
                        IF all
                        THEN \A p \in DOMAIN query.values : QueryFragmentHolds(query, p, row)
                        ELSE \E p \in DOMAIN query.values : QueryFragmentHolds(query, p, row))

IsCompiledFrom(p, built) ==
    /\ condition_str[2 * p - 1] = built.sql
    /\ condition_values[p] = built.value

\* C5: the compiled predicate holds one fragment for each condition that
\* build_condition did not answer with (None, None), in condition order,
\* the p-th bound value is the value compiled for the p-th of them, and
\* there are as many bound values as placeholders.
C5_FragmentsAndValuesInOrder ==
    pc = "query" =>
        /\ Len(condition_values) = Len(KeptPositions(RuleConditions))
        /\ Len(condition_str) = 2 * Len(condition_values) - 1
        /\ Cardinality({i \in DOMAIN condition_str : "op" \in DOMAIN condition_str[i]})
             = Len(condition_values)
        /\ \A p \in DOMAIN condition_values :
            IsCompiledFrom(p, build_condition(KeptCondition(p), now))

\* the first of two conditions was discarded and the second kept
C5_Witness ==
    /\ pc = "query"
    /\ Len(RuleConditions) = 2
    /\ build_condition(RuleConditions[1], now).kind = "none"
    /\ condition_values = <<build_condition(RuleConditions[2], now).value>>

\* value occurs in text, the case of ASCII letters ignored
ContainsIgnoringAsciiCase(text, value) ==
    \E i \in 0..(Len(text) - Len(value)) :
        \A k \in 1..Len(value) : AsciiLower(text[i + k]) = AsciiLower(value[k])

\* value occurs in text, letter for letter
ContainsExactly(text, value) ==
    \E i \in 0..(Len(text) - Len(value)) :
        \A k \in 1..Len(value) : text[i + k] = value[k]

\* the text of the row in the column the condition names
FieldText(condition, row) == ToStr(ColumnValue(row, title(condition.field_name.s)))

LikeAsCompiled(p, condition, op, negated) ==
    /\ condition_str[2 * p - 1] = [column |-> title(condition.field_name.s), op |-> op]
    /\ condition_values[p] = PyStr(<<37>> \o condition.value.s \o <<37>>)
    /\ \A n \in DOMAIN emails :
        KeptHolds(p, emails[n])
          = (negated # ContainsIgnoringAsciiCase(FieldText(condition, emails[n]),
                                                 condition.value.s))

LikeConditionAsCompiled(p, condition) ==
    /\ HasPredicate(condition, s_contains) => LikeAsCompiled(p, condition, "LIKE", FALSE)
    /\ HasPredicate(condition, s_does_not_contain)
         => LikeAsCompiled(p, condition, "NOT LIKE", TRUE)

MatchedInOtherCase(p, condition) ==
    /\ HasPredicate(condition, s_contains)
    /\ \E n \in DOMAIN emails :
        /\ KeptHolds(p, emails[n])
        /\ ~ContainsExactly(FieldText(condition, emails[n]), condition.value.s)

LowerCasedAsClaimed(p, condition, negated) ==
    /\ condition_values[p] = PyStr(<<37>> \o lower(condition.value.s) \o <<37>>)
    /\ \A n \in DOMAIN emails :
        KeptHolds(p, emails[n])
          = (negated # ContainsExactly(lower(FieldText(condition, emails[n])),
                                       lower(condition.value.s)))

LikeConditionAsClaimed(p, condition) ==
    /\ HasPredicate(condition, s_contains) => LowerCasedAsClaimed(p, condition, FALSE)
    /\ HasPredicate(condition, s_does_not_contain) => LowerCasedAsClaimed(p, condition, TRUE)

EqualsIgnoringCase(p, condition, negated) ==
    \A n \in DOMAIN emails :
        KeptHolds(p, emails[n])
          = (negated # (lower(FieldText(condition, emails[n])) = lower(condition.value.s)))

EqualsConditionAsClaimed(p, condition) ==
    /\ HasPredicate(condition, s_equals) => EqualsIgnoringCase(p, condition, FALSE)
    /\ HasPredicate(condition, s_does_not_equal) => EqualsIgnoringCase(p, condition, TRUE)

\* C7 as claimed: equals matches a row exactly when its field equals the
\* value up to letter case, and does not equal matches exactly the other rows.
C7_EqualsIgnoresCase ==
    pc = "query" =>
        \A p \in DOMAIN condition_values :
            EqualsConditionAsClaimed(p, KeptCondition(p))

(***************************************************************************)
(* Properties of the date conditions.                                      *)
(***************************************************************************)
\* the instant at which a stored row was received
ReceivedAt(row) == RowInstants[row[s_id].n]

Earlier(a, b) == a.day < b.day \/ (a.day = b.day /\ a.sec < b.sec)

IsDateCondition(condition, unit) ==
    /\ title(condition.field_name.s) = s_Date_Received
    /\ condition.predicate \in {PyStr(s_is_less_than), PyStr(s_is_greater_than)}
    /\ "unit" \in DOMAIN condition
    /\ condition.unit = PyStr(unit)

\* N days before the clock instant
Cutoff(days) == [day |-> now.day - days, sec |-> now.sec]

\* YYYY-MM-DD HH:MM:SS
IsTimestampText(text) ==
    /\ Len(text) = 19
    /\ \A i \in 1..19 :
        IF i \in {5, 8} THEN text[i] = 45
        ELSE IF i = 11 THEN text[i] = 32
        ELSE IF i \in {14, 17} THEN text[i] = 58
        ELSE IsDigit(text[i])

DateAsCompiled(p, less, target) ==
    /\ condition_str[2 * p - 1]
         = [column |-> s_Date_Received, op |-> IF less THEN ">" ELSE "<"]
    /\ condition_values[p] = PyStr(strftime(target))
    /\ IsTimestampText(condition_values[p].s)
    /\ \A n \in DOMAIN emails :
        KeptHolds(p, emails[n])
          = IF less
            THEN Earlier(target, ReceivedAt(emails[n]))
            ELSE Earlier(ReceivedAt(emails[n]), target)

DateConditionAsCompiled(p, condition) ==
    /\ IsDateCondition(condition, s_days)
         => DateAsCompiled(p, HasPredicate(condition, s_is_less_than),
                           Cutoff(ParseInt(condition.value).n))
    /\ IsDateCondition(condition, s_months)
         => DateAsCompiled(p, HasPredicate(condition, s_is_less_than),
                           Cutoff(30 * ParseInt(condition.value).n))

\* C8: a Date Received condition with integer value N compiles to the
\* target now - N days (unit days) or now - 30 N days (unit months), written
\* YYYY-MM-DD HH:MM:SS as the bound value; is less than compiles to
\* field > target and matches the rows received after the target, is greater
\* than compiles to field < target and matches the rows received before it.
C8_DateCutoff ==
    pc = "query" =>
        \A p \in DOMAIN condition_values :
            DateConditionAsCompiled(p, KeptCondition(p))

SplitsTheRows(p, condition) ==
    /\ IsDateCondition(condition, s_days)
    /\ HasPredicate(condition, s_is_less_than)
    /\ \E n, m \in DOMAIN emails :
        /\ KeptHolds(p, emails[n])
        /\ ~KeptHolds(p, emails[m])
        /\ Earlier(ReceivedAt(emails[m]), Cutoff(1))

\* is less than 1 days matched a row received after the cutoff and left out
\* a row received before it
C8_Witness ==
    /\ pc = "query"
    /\ \E p \in DOMAIN condition_values : SplitsTheRows(p, KeptCondition(p))

\* str(n) of an integer
IntText(n) == IF n < 0 THEN <<45>> \o NatDigits(0 - n) ELSE NatDigits(n)

\* the date condition with another unit and count
WithCount(condition, unit, n) ==
    [condition EXCEPT !.unit = PyStr(unit), !.value = PyStr(IntText(n))]

\* the condition with unit days and value 30 N in place of months and N
InDays(condition) == WithCount(condition, s_days, 30 * ParseInt(condition.value).n)

CompiledAs(p, built) == built.kind = "ok" /\ IsCompiledFrom(p, built)

MonthsAsDays(p, condition) ==
    IsDateCondition(condition, s_months) =>
        /\ CompiledAs(p, build_condition(InDays(condition), now))
        /\ \A n \in (0 - MaxCount)..MaxCount :
            build_condition(WithCount(condition, s_months, n), now)
              = build_condition(WithCount(condition, s_days, 30 * n), now)

\* C9: a condition with unit months and value N compiles, at the same clock
\* instant, to the fragment and bound value of the condition with unit days
\* and value 30 N, for both date predicates.
C9_MonthIsThirtyDays ==
    pc = "query" =>
        \A p \in DOMAIN condition_values : MonthsAsDays(p, KeptCondition(p))

OneMonthBack(p, condition) ==
    /\ IsDateCondition(condition, s_months)
    /\ HasPredicate(condition, s_is_less_than)
    /\ condition_values[p] = PyStr(strftime([day |-> 19753, sec |-> now.sec]))

\* is less than 1 months reached the query with the target 2024-01-31, 30
\* days before the clock's 2024-03-01
C9_Witness ==
    /\ pc = "query"
    /\ \E p \in DOMAIN condition_values : OneMonthBack(p, KeptCondition(p))

\* the same condition with the other date predicate
Opposite(condition) ==
    [condition EXCEPT !.predicate = IF HasPredicate(condition, s_is_less_than)
                                    THEN PyStr(s_is_greater_than)
                                    ELSE PyStr(s_is_less_than)]

OneSide(this, other, boundary) ==
    /\ ~(this /\ other)
    /\ ~boundary => (this \/ other)

Partitions(p, condition, other, target) ==
    IsDateCondition(condition, s_days) =>
        \A n \in DOMAIN emails :
            OneSide(KeptHolds(p, emails[n]), CompiledHolds(other, emails[n]),
                    ReceivedAt(emails[n]) = target)

PartitionsAt(p, condition) ==
    Partitions(p, condition, build_condition(Opposite(condition), now),
               Cutoff(ParseInt(condition.value).n))

\* C10: for unit days at one clock instant, no row satisfies both is less
\* than N and is greater than N, and every row not received exactly at
\* now - N days satisfies exactly one of them.
C10_DaysPartition ==
    pc = "query" =>
        \A p \in DOMAIN condition_values : PartitionsAt(p, KeptCondition(p))

OnTheBoundary(p, condition, other) ==
    /\ IsDateCondition(condition, s_days)
    /\ \E n, m \in DOMAIN emails :
        /\ KeptHolds(p, emails[n])
        /\ ReceivedAt(emails[m]) = Cutoff(ParseInt(condition.value).n)
        /\ ~KeptHolds(p, emails[m])
        /\ ~CompiledHolds(other, emails[m])

\* one stored row satisfies the compiled predicate and one, received exactly
\* at the cutoff, satisfies neither date predicate
C10_Witness ==
    /\ pc = "query"
    /\ \E p \in DOMAIN condition_values :
        OnTheBoundary(p, KeptCondition(p),
                      build_condition(Opposite(KeptCondition(p)), now))

(***************************************************************************)
(* Properties of build_condition on conditions with keys missing or out of *)
(* their enumerations.                                                     *)
(***************************************************************************)
\* the one condition of the rule file
DrawnCondition == rules_file[1].rules[1]

\* the key is missing or its value is falsy
Lacks(condition, key) == ~Truthy(Get(condition, key, PyNone))

\* the field, in the capitalisation of the stored columns
FieldOf(condition) == title(Get(condition, "field_name", PyStr(<<>>)).s)

IsDatePredicate(condition) ==
    Get(condition, "predicate", PyNone) \in {PyStr(s_is_less_than), PyStr(s_is_greater_than)}

IsTextPredicate(condition) ==
    Get(condition, "predicate", PyNone)
        \in {PyStr(s_contains), PyStr(s_does_not_contain),
             PyStr(s_equals), PyStr(s_does_not_equal)}

\* an optional sign followed by digits
IsCountText(text) ==
    /\ text # <<>>
    /\ \E i \in DOMAIN text : IsDigit(text[i])
    /\ \A i \in DOMAIN text : IsDigit(text[i]) \/ (i = 1 /\ text[i] \in {43, 45})

MissingRequired(condition) ==
    Lacks(condition, "field_name") \/ Lacks(condition, "predicate") \/ Lacks(condition, "value")

IsDateRequest(condition) ==
    /\ ~MissingRequired(condition)
    /\ FieldOf(condition) = s_Date_Received
    /\ IsDatePredicate(condition)

BadCount(condition) == IsDateRequest(condition) /\ ~IsCountText(condition.value.s)

BadUnit(condition) ==
    IsDateRequest(condition)
    /\ Get(condition, "unit", PyNone) \notin {PyStr(s_days), PyStr(s_months)}

\* the condition gave (None, None) and the run went on without it: no error
\* return, no store read
Dropped(built) ==
    /\ built = NoneNone
    /\ pc # "query"
    /\ queries = <<>>
    /\ ret \in {NotReturned, PyInt(0)}

InvalidCombination(condition) ==
    /\ ~MissingRequired(condition)
    /\ \/ IsDatePredicate(condition) /\ FieldOf(condition) # s_Date_Received
       \/ IsTextPredicate(condition) /\ FieldOf(condition) = s_Date_Received

\* C12 as claimed: is less than / is greater than on a field other than Date
\* Received, and contains / does not contain / equals / does not equal on
\* Date Received, give (None, None).
C12_InvalidCombinationDropped ==
    InvalidCombination(DrawnCondition) => Dropped(build_condition(DrawnCondition, now))

\* the columns of the emails table that a condition may name
FieldEnum == {s_From, s_Subject, s_Message, s_Date_Received}

\* C13 as claimed: every fragment of a compiled predicate names one of the
\* columns From, Subject, Message, Date Received; a condition with another
\* field_name is rejected before its name reaches the predicate.
C13_ColumnFromEnum ==
    /\ \A i \in DOMAIN condition_str :
        "column" \in DOMAIN condition_str[i] => condition_str[i].column \in FieldEnum
    /\ (~MissingRequired(DrawnCondition) /\ FieldOf(DrawnCondition) \notin FieldEnum)
         => Dropped(build_condition(DrawnCondition, now))

(***************************************************************************)
(* Properties of the operation bundler.                                    *)
(***************************************************************************)
\* the operation descriptors of the rule being handled
RuleOperationList == Get(rules[r], "operations", <<>>)

IsMarkAsRead(descriptor) == Get(descriptor, "action", PyNone) = PyStr(s_Mark_as_Read)

IsMove(descriptor) ==
    /\ Get(descriptor, "action", PyNone) = PyStr(s_Move_message)
    /\ Truthy(Get(descriptor, "destination", PyNone))

\* a Move message descriptor whose destination is given but is no string
HasBadDestination(descriptor) ==
    IsMove(descriptor) /\ Get(descriptor, "destination", PyNone).t # "str"

\* the bundle holds one operation of the right class per kept descriptor
IsBundleOf(bundle, kept) ==
    /\ Len(bundle) = Len(kept)
    /\ \A k \in DOMAIN kept :
        IF IsMarkAsRead(kept[k])
        THEN bundle[k] = [kind |-> "MarkAsRead"]
        ELSE bundle[k].kind = "MoveToLabel"

BundledInOrder(descriptors) ==
    IsBundleOf(email_operations,
               SelectSeq(descriptors, LAMBDA d : IsMarkAsRead(d) \/ IsMove(d)))

RaisesOnBadDestination(descriptors, bundle) ==
    bundle.raised = (\E k \in DOMAIN descriptors : HasBadDestination(descriptors[k]))

\* C14 as amended: the bundle holds, in descriptor order, one MarkAsRead per
\* "Mark as Read" descriptor and one MoveToLabel per "Move message"
\* descriptor with a destination, the other descriptors being dropped; no
\* error is raised unless a destination is given that is not a string, and
\* then bundling raises.
C14_BundleInOrder ==
    /\ pc \in {"email", "op"} => BundledInOrder(RuleOperationList)
    /\ pc = "bundle"
         => RaisesOnBadDestination(RuleOperationList,
                                   bundle_email_operations(RuleOperationList))

\* four descriptors, the second unknown and the third without destination,
\* gave a MoveToLabel followed by a MarkAsRead
C14_Witness ==
    /\ pc = "email"
    /\ Len(RuleOperationList) = 4
    /\ Len(email_operations) = 2
    /\ email_operations[1].kind = "MoveToLabel"
    /\ email_operations[2].kind = "MarkAsRead"

\* C14 as claimed: the bundle is as above and no descriptor list raises.
C14_BundleNeverRaises ==
    /\ pc \in {"email", "op"} => BundledInOrder(RuleOperationList)
    /\ pc = "bundle" => ~bundle_email_operations(RuleOperationList).raised

(***************************************************************************)
(* Properties of the labels.                                               *)
(***************************************************************************)
s_WORK == <<87, 79, 82, 75>>

HasNoLowerCase(label) == \A i \in DOMAIN label : ~(label[i] >= 97 /\ label[i] <= 122)

\* the destinations the rule gives, letter case ignored
DestinationsOf(descriptors) ==
    {AsciiLowerStr(descriptors[k].destination.s) :
        k \in {i \in DOMAIN descriptors : IsMove(descriptors[i])}}

IsNormalised(operation, descriptors) ==
    operation.kind = "MoveToLabel" =>
        /\ HasNoLowerCase(operation.label)
        /\ AsciiLowerStr(operation.label) \in DestinationsOf(descriptors)
        /\ operation.label = s_WORK

\* an update that moved a message left the upper-case label on it
LabelApplied(call) ==
    (call.operation.kind = "MoveToLabel" /\ call.result)
        => call.operation.label \in mailbox[call.message_id]

\* C15: a MoveToLabel operation holds its label in upper case from
\* construction on, whatever the case of the rule's destination ("work" and
\* "Work" give "WORK"), and that upper-case label is the one passed to the
\* mail service's update.
C15_LabelUpperCase ==
    /\ pc \in {"email", "op"} =>
        \A k \in DOMAIN email_operations :
            IsNormalised(email_operations[k], RuleOperationList)
    /\ \A c \in DOMAIN calls :
        /\ IsNormalised(calls[c].operation, rules[calls[c].rule].operations)
        /\ LabelApplied(calls[c])

\* a rule with the destination "Work" moved a message, which now carries
\* the label "WORK"
C15_Witness ==
    \E c \in DOMAIN calls :
        /\ calls[c].operation = [kind |-> "MoveToLabel", label |-> s_WORK]
        /\ calls[c].result
        /\ Len(rules[calls[c].rule].operations) = 4
        /\ s_WORK \in mailbox[calls[c].message_id]

(***************************************************************************)
(* Properties of the loops of run_operations.                              *)
(***************************************************************************)
\* the store read logged for rule i
QueryOf(i) == queries[CHOOSE k \in DOMAIN queries : queries[k].rule = i]

HasId(record) == Truthy(Get(record, s_unique_id, PyNone))

\* the number of operations bundled for the rule
BundleSize(rule) == Len(bundle_email_operations(Get(rule, "operations", <<>>)).ops)

CalledFor(i, m, n) ==
    \E c \in DOMAIN calls : calls[c].rule = i /\ calls[c].email = m /\ calls[c].op = n

\* rule i is through: records without id were not counted, and every operation
\* was applied to every record with an id
WentThrough(i, count, found, size) ==
    /\ count <= Cardinality({m \in DOMAIN found : HasId(found[m])})
    /\ \A m \in DOMAIN found :
        HasId(found[m]) => \A n \in 1..size : CalledFor(i, m, n)

\* C16: no mail-service call is made for a matching record without
\* unique_id and the record is not counted; the later records of the rule
\* get every operation, and a run that returns a count has handled every
\* rule of the file.
C16_RecordWithoutIdSkipped ==
    /\ \A c \in DOMAIN calls : HasId(QueryOf(calls[c].rule).found[calls[c].email])
    /\ \A k \in DOMAIN printed :
        WentThrough(printed[k].rule, printed[k].count,
                    QueryOf(printed[k].rule).found, BundleSize(rules[printed[k].rule]))
    /\ ret.t = "int" =>
        \A i \in DOMAIN rules :
            (\E k \in DOMAIN queries : queries[k].rule = i) \/ NoConditionCompiles(rules[i])

\* the first of two matching records of the first rule had no unique_id; the
\* second got a call, and so did a record of the second rule
C16_Witness ==
    /\ pc = "done"
    /\ ret.t = "int"
    /\ \E k \in DOMAIN queries :
        /\ queries[k].rule = 1
        /\ Len(queries[k].found) = 2
        /\ ~HasId(queries[k].found[1])
    /\ CalledFor(1, 2, 1)
    /\ \E c \in DOMAIN calls : calls[c].rule = 2

\* the position of a stored row in the table
RowPosition(record) == CHOOSE n \in DOMAIN emails : emails[n] = record

\* the call comes before the other in the order rule, record, operation
Precedes(a, b) ==
    \/ a.rule < b.rule
    \/ a.rule = b.rule /\ a.email < b.email
    \/ a.rule = b.rule /\ a.email = b.email /\ a.op < b.op

\* the store returned the records in table order
InStoreOrder(found) ==
    \A m \in DOMAIN found :
        m + 1 \in DOMAIN found => RowPosition(found[m]) < RowPosition(found[m + 1])

\* the call applied the op-th bundled operation of its rule to the email-th
\* record the store returned for the rule
IsCallOf(call, found, operations) ==
    /\ call.message_id = found[call.email][s_unique_id].s
    /\ call.operation = operations[call.op]

\* C17: the update calls of a run are ordered by rule in file order, then by
\* matching record in the order the store returned them, then by operation
\* in declaration order.
C17_CallsInOrder ==
    /\ \A c \in DOMAIN calls :
        /\ c + 1 \in DOMAIN calls => Precedes(calls[c], calls[c + 1])
        /\ IsCallOf(calls[c], QueryOf(calls[c].rule).found,
                    bundle_email_operations(rules[calls[c].rule].operations).ops)
    /\ \A k \in DOMAIN queries : InStoreOrder(queries[k].found)

\* two operations on the first record of the first rule, then the second
\* rule's operation on its two records
C17_Witness ==
    /\ Len(calls) = 4
    /\ calls[1].rule = 1 /\ calls[1].email = 1 /\ calls[1].op = 1
    /\ calls[2].rule = 1 /\ calls[2].email = 1 /\ calls[2].op = 2
    /\ calls[3].rule = 2 /\ calls[3].email = 1 /\ calls[3].op = 1
    /\ calls[4].rule = 2 /\ calls[4].email = 2 /\ calls[4].op = 1

\* the rule raises while it is compiled or while its operations are bundled
RaisesAt(rule) ==
    \/ create_sql_query(rule, now).raised
    \/ bundle_email_operations(Get(rule, "operations", <<>>)).raised

\* the run ended in the except clause
Aborted == pc = "done" /\ ret = PyNone

\* every operation was applied to every record with an id
AllApplied(i, found, size) ==
    \A m \in DOMAIN found :
        HasId(found[m]) => \A n \in 1..size : CalledFor(i, m, n)

\* C18: an update whose remote call fails returns False and does not abort
\* the run: the rule still applies every operation to every record, and the
\* run ends in the except clause only when the rule file failed to load or
\* a rule raised while compiling or bundling, never because of a failed
\* update; otherwise it returns a count.
C18_FailedUpdateDoesNotAbort ==
    /\ \A c \in DOMAIN calls : ~calls[c].remote => ~calls[c].result
    /\ \A k \in DOMAIN printed :
        AllApplied(printed[k].rule, QueryOf(printed[k].rule).found,
                   BundleSize(rules[printed[k].rule]))
    /\ Aborted => (rules = <<>> \/ (r \in DOMAIN rules /\ RaisesAt(rules[r])))
    /\ (pc = "done" /\ ~Aborted) => ret.t = "int"

\* the remote call failed for the first operation on the first record of each
\* of two rules; the next operation, the next record and the next rule
\* followed and the run returned a count
C18_Witness ==
    /\ pc = "done"
    /\ ret.t = "int"
    /\ Len(calls) = 4
    /\ ~calls[1].remote
    /\ calls[2].rule = 1 /\ calls[2].email = 1 /\ calls[2].op = 2
    /\ calls[3].rule = 2 /\ ~calls[3].remote
    /\ calls[4].rule = 2 /\ calls[4].email = 2

\* the run ended without the rules of the file having been loaded
LoadFailed == pc = "done" /\ rules = <<>> /\ rules_file # <<>>

\* C19 as claimed: a failure while loading the rule file reaches the caller
\* of run_operations as a raised error, never as a returned value, and no
\* rule is processed after it.
C19_LoadFailureRaised ==
    LoadFailed =>
        /\ ret.t = "raised"
        /\ queries = <<>>
        /\ calls = <<>>

(***************************************************************************)
(* Frame of run_operations on the store.                                   *)
(***************************************************************************)
\* C20: no step of run_operations changes the emails table: the rows after
\* the run, their order and their contents, are those before it; the run
\* only reads the store.
C20_StoreUnchanged == [][emails' = emails]_vars

\* a run that read matching records, changed labels in the remote mailbox
\* and returned a count of at least 1
C20_Witness ==
    /\ pc = "done"
    /\ ret.t = "int"
    /\ ret.n >= 1
    /\ \E k \in DOMAIN queries : queries[k].found # <<>>
    /\ \E c \in DOMAIN calls : calls[c].result

(***************************************************************************)
(* Properties of a rule whose read returns nothing.                        *)
(***************************************************************************)
\* the run went past rule i without a mail-service call and without a count
\* for it
PassedOver(i) ==
    /\ r > i
    /\ \A c \in DOMAIN calls : calls[c].rule # i
    /\ \A k \in DOMAIN printed : printed[k].rule # i

\* C21: when the read for a rule returns no record, the run bundles nothing
\* for the rule (a destination that would make bundling raise is never
\* looked at), makes no mail-service call and prints no count for it, and
\* goes on to the next rule.
C21_EmptyResultNextRule ==
    \A k \in DOMAIN queries :
        queries[k].found = <<>> => PassedOver(queries[k].rule)

\* the store holds a row, the read of a rule found none, and a later rule
\* made a mail-service call
C21_Witness ==
    \E k \in DOMAIN queries :
        /\ queries[k].found = <<>>
        /\ emails # <<>>
        /\ \E c \in DOMAIN calls : calls[c].rule > queries[k].rule

(***************************************************************************)
(* End to end: one rule, a mail service whose updates all return True.     *)
(***************************************************************************)
\* the row satisfies the conditions of the rule that compile: all of them
\* for "all", one of them otherwise
Satisfies(rule, row) ==
    IF IsAll(rule)
    THEN \A k \in DOMAIN rule.rules :
            build_condition(rule.rules[k], now).kind = "none"
            \/ CompiledHolds(build_condition(rule.rules[k], now), row)
    ELSE \E k \in DOMAIN rule.rules :
            CompiledHolds(build_condition(rule.rules[k], now), row)

\* the stored rows with a unique_id that satisfy the rule
MatchingWithId(rule) ==
    {n \in DOMAIN emails : HasId(emails[n]) /\ Satisfies(rule, emails[n])}

\* the rule compiles to a predicate and bundles at least one operation
IsEffective(rule) ==
    /\ ~RaisesAt(rule)
    /\ ~NoConditionCompiles(rule)
    /\ BundleSize(rule) >= 1

\* C22: a run over a single rule with a compilable condition and a
\* recognised operation, in which every mail-service update returned True,
\* returns the number of stored records that satisfy the rule's predicate
\* and have a unique_id.
C22_SingleRuleCount ==
    (/\ pc = "done"
     /\ Len(rules) = 1
     /\ \A c \in DOMAIN calls : calls[c].result)
        => (IsEffective(rules[1])
                => ret = PyInt(Cardinality(MatchingWithId(rules[1]))))

\* two rows stored, one of them matching with an id: the run returned 1
C22_Witness ==
    /\ pc = "done"
    /\ Len(rules) = 1
    /\ IsEffective(rules[1])
    /\ Len(emails) = 2
    /\ calls # <<>>
    /\ \A c \in DOMAIN calls : calls[c].result
    /\ ret = PyInt(1)

\* the calls made for rule i
CallsOf(i) == {c \in DOMAIN calls : calls[c].rule = i}

\* the records the store returned that have a unique_id
WithId(found) == {m \in DOMAIN found : HasId(found[m])}

\* no operation was applied twice to the same record of the same rule
AppliedOnce ==
    \A c, d \in DOMAIN calls :
        (/\ calls[c].rule = calls[d].rule
         /\ calls[c].email = calls[d].email
         /\ calls[c].op = calls[d].op) => c = d

\* C27: operations on a record are never short-circuited: every bundled
\* operation is applied exactly once to every matching record with a
\* unique_id, whatever the earlier operations on the record returned, so a
\* rule makes exactly (records with id) x (bundled operations) calls.
C27_NoShortCircuit ==
    /\ AppliedOnce
    /\ \A k \in DOMAIN printed :
        /\ AllApplied(printed[k].rule, QueryOf(printed[k].rule).found,
                      BundleSize(rules[printed[k].rule]))
        /\ Cardinality(CallsOf(printed[k].rule))
              = Cardinality(WithId(QueryOf(printed[k].rule).found))
                    * BundleSize(rules[printed[k].rule])

\* a rule with two bundled operations is through: the second operation was
\* applied to a record after the first had succeeded, and in another run
\* after the first had failed
C27_Witness ==
    /\ \E k \in DOMAIN printed : printed[k].rule = 1
    /\ Len(calls) >= 2
    /\ calls[1].rule = 1 /\ calls[1].email = 1 /\ calls[1].op = 1
    /\ calls[2].rule = 1 /\ calls[2].email = 1 /\ calls[2].op = 2
    /\ calls[1].result

\* the same, the first operation having failed
C27_WitnessAfterFailure ==
    /\ \E k \in DOMAIN printed : printed[k].rule = 1
    /\ Len(calls) >= 2
    /\ calls[1].rule = 1 /\ calls[1].email = 1 /\ calls[1].op = 1
    /\ calls[2].rule = 1 /\ calls[2].email = 1 /\ calls[2].op = 2
    /\ ~calls[1].result

\* rule i raised nothing: it compiled, and its operations bundled unless the
\* store returned no record for it
Survived(i) ==
    /\ ~create_sql_query(rules[i], now).raised
    /\ bundle_email_operations(Get(rules[i], "operations", <<>>)).raised
          => \A k \in DOMAIN queries :
                queries[k].rule = i => queries[k].found = <<>>

\* nothing was done for the rules after rule i
NothingAfter(i) ==
    /\ \A k \in DOMAIN queries : queries[k].rule <= i
    /\ \A c \in DOMAIN calls : calls[c].rule <= i
    /\ \A k \in DOMAIN printed : printed[k].rule < i

\* the remote mailbox shows the update the call made
StaysApplied(call) ==
    call.result =>
        IF call.operation.kind = "MarkAsRead"
        THEN s_UNREAD \notin mailbox[call.message_id]
        ELSE call.operation.label \in mailbox[call.message_id]

\* C28: an exception raised after rule loading (compiling a rule, bundling
\* its operations) stops the run there with None: the rules before it
\* raised nothing, the counts already accumulated are not returned, the
\* rules after it are not processed, and the remote updates already made
\* stay on the mailbox.
C28_ExceptionAbortsWithNone ==
    /\ pc # "load" => \A i \in DOMAIN rules : i < r => Survived(i)
    /\ (pc = "done" /\ r \in DOMAIN rules) =>
        /\ ret = PyNone
        /\ RaisesAt(rules[r])
        /\ NothingAfter(r)
    /\ (pc = "done" /\ rules # <<>> /\ r \notin DOMAIN rules) => ret.t = "int"
    /\ \A c \in DOMAIN calls : StaysApplied(calls[c])

\* the second rule raised after the first had counted a record: None is
\* returned and the update of the first rule is still on the mailbox
C28_Witness ==
    /\ Aborted
    /\ r = 2
    /\ success_count >= 1
    /\ \E c \in DOMAIN calls :
        /\ calls[c].rule = 1
        /\ calls[c].result
        /\ calls[c].operation.kind = "MarkAsRead"
        /\ s_UNREAD \notin mailbox[calls[c].message_id]

\* the first of two rules raised while bundling: the second was not touched
C28_WitnessLaterRule ==
    /\ Aborted
    /\ r = 1
    /\ Len(rules) = 2
    /\ queries # <<>>
    /\ ~create_sql_query(rules[1], now).raised

\* the (rule, message) pairs with an update that returned True
SuccessfulPairs ==
    {pair \in (DOMAIN rules) \X MessageIds :
        \E c \in DOMAIN calls :
            /\ calls[c].rule = pair[1]
            /\ calls[c].message_id = pair[2]
            /\ calls[c].result}

\* the number of updates of rule i that returned True
SuccessfulCalls(i) == Cardinality({c \in CallsOf(i) : calls[c].result})

\* C30: within a rule a record adds at most 1 to the count however many of
\* its operations succeed, and the aggregate is not deduplicated across
\* rules: the returned count is the number of (rule, record) pairs with a
\* successful operation, so a record matched by k rules adds k and the
\* count can exceed the number of stored records.
C30_CountPerRuleNotDeduplicated ==
    /\ \A k \in DOMAIN printed :
        printed[k].count <= Cardinality(WithId(QueryOf(printed[k].rule).found))
    /\ (pc = "done" /\ ret.t = "int") => ret.n = Cardinality(SuccessfulPairs)

\* one stored record, two rules that each updated it successfully, the
\* second with two successful operations: the run returned 2
C30_Witness ==
    /\ pc = "done"
    /\ Len(emails) = 1
    /\ ret = PyInt(2)
    /\ SuccessfulCalls(2) = 2
    /\ printed[2].count = 1

(***************************************************************************)
(* Properties of a second run.                                             *)
(***************************************************************************)
\* the second run has returned
SecondRunDone == run = 2 /\ pc = "done"

\* no remote call failed in either run
NoRemoteFailure == first.clean /\ \A c \in DOMAIN calls : calls[c].remote

\* every rule selected in the second run the records it selected in the first
SameSelection ==
    /\ Len(queries) = Len(first.queries)
    /\ \A k \in DOMAIN queries : queries[k].found = first.queries[k].found

\* C23 as stated: with the store and the rule file unchanged and no remote
\* failure, a second run leaves every message's label set as the first run
\* left it.
C23_SecondRunKeepsLabels ==
    (SecondRunDone /\ NoRemoteFailure) => mailbox = first.mailbox

\* C23: with the store and the rule file unchanged, no remote failure, and
\* every rule selecting the same records as in the first run, a second run
\* leaves every message's label set as the first run left it.
C23_SecondRunKeepsLabelsOfSameRecords ==
    (SecondRunDone /\ NoRemoteFailure /\ SameSelection) => mailbox = first.mailbox

\* both runs applied updates without a remote failure to the same records,
\* the first run having changed the mailbox
C23_Witness ==
    /\ SecondRunDone
    /\ NoRemoteFailure
    /\ SameSelection
    /\ first.ret.t = "int" /\ first.ret.n >= 1
    /\ Len(calls) >= 2
    /\ \E id \in MessageIds : s_UNREAD \notin first.mailbox[id]
    /\ \E id \in MessageIds : s_WORK \in first.mailbox[id]

\* the step is a mail-service update that marks as read
MarkAsReadStep ==
    /\ Len(calls') = Len(calls) + 1
    /\ calls'[Len(calls')].operation.kind = "MarkAsRead"

\* the update returned True exactly when the message carried UNREAD and the
\* remote calls went through; when it returned False the mailbox is untouched
MarkAsReadAsClaimed(call) ==
    /\ call.result <=> (call.remote /\ s_UNREAD \in mailbox[call.message_id])
    /\ ~call.result => mailbox' = mailbox
    /\ call.result => mailbox' = [mailbox EXCEPT ![call.message_id] = @ \ {s_UNREAD}]

\* a rule that only marks as read counted nothing
MarkOnlyCountsNothing ==
    \A k \in DOMAIN printed :
        bundle_email_operations(rules[printed[k].rule].operations).ops
                = <<MarkAsReadOperation>>
            => printed[k].count = 0

\* C29: an update that only marks as read returns True exactly when the
\* message carried UNREAD before the call and the remote calls succeeded; on
\* a read message it changes nothing and returns False, so in a second run
\* over the same records a rule whose only operation is Mark as Read counts
\* 0 successes.
C29_MarkAsReadOnlyOnUnread ==
    [][/\ MarkAsReadStep => MarkAsReadAsClaimed(calls'[Len(calls')])
       /\ (run' = 2 /\ first'.clean /\ SameSelection')
            => MarkOnlyCountsNothing']_vars

\* the first run marked a message as read and counted it; the second run
\* made the same update, got False and returned 0
C29_Witness ==
    /\ SecondRunDone
    /\ first.clean
    /\ SameSelection
    /\ first.ret.t = "int" /\ first.ret.n >= 1
    /\ ret = PyInt(0)
    /\ calls # <<>>
    /\ \A c \in DOMAIN calls :
        calls[c].remote /\ ~calls[c].result /\ calls[c].operation.kind = "MarkAsRead"

(***************************************************************************)
(* Properties of fetch_and_store_emails.                                   *)
(***************************************************************************)
\* no two rows of the table share a unique_id
UniqueIds(table) ==
    \A m, n \in DOMAIN table :
        table[m][s_unique_id] = table[n][s_unique_id] => m = n

\* every row of the table is still there, unchanged
RowsKept ==
    \A n \in DOMAIN emails : n \in DOMAIN emails' /\ emails'[n] = emails[n]

\* the step is a turn of the loop of fetch_and_store_emails
StoreStep == fpc = "loop" /\ fetch_i' = fetch_i + 1

\* a row with the unique_id of the message is stored
IsStored(email) ==
    \E n \in DOMAIN emails : emails[n][s_unique_id] = email[s_unique_id]

\* C24: through any sequence of fetch_and_store_emails calls no two stored
\* records share a unique_id and no stored record is changed; a message
\* fetched again after it was stored adds no record, a message not yet
\* stored adds exactly one.
C24_OneRecordPerMessage ==
    [][/\ UniqueIds(emails')
       /\ RowsKept
       /\ StoreStep =>
            IF IsStored(fetched_emails[fetch_i])
            THEN emails' = emails
            ELSE /\ Len(emails') = Len(emails) + 1
                 /\ emails'[Len(emails')][s_unique_id]
                        = fetched_emails[fetch_i][s_unique_id]]_vars

\* in the second call a message was fetched again with another Date header:
\* the table still holds its one record, with the date of the first fetch
C24_Witness ==
    /\ fetches = 2
    /\ fpc = "loop"
    /\ fetch_i = 2
    /\ fetched_emails[1][s_unique_id] = PyStr(<<97>>)
    /\ fetched_emails[1][s_Date_Received] = DateHeader(Wall1000, 330)
    /\ Len(emails) = 1
    /\ emails[1][s_unique_id] = PyStr(<<97>>)
    /\ emails[1][s_Date_Received] = PyStr(strftime(Wall0430))

\* the instant of a Date header in UTC: astimezone(timezone.utc)
UtcOf(header) == PlusMinutes(header.wall, 0 - header.offset)

\* the row stored by the step carries the UTC reading of the message's header
StoredInUtc(header) ==
    (header.t = "date" /\ Len(emails') = Len(emails) + 1)
        => emails'[Len(emails')][s_Date_Received] = PyStr(strftime(UtcOf(header)))

\* C25: the date_received stored for a message is its receive instant in
\* UTC, so one instant spelt with different offsets is stored as one text.
C25_StoredDateIsUtc ==
    [][StoreStep => StoredInUtc(fetched_emails[fetch_i][s_Date_Received])]_vars

\* C26: fetch_and_store_emails returns True or False and never raises:
\* False when the mail service yields no emails or a step raised, True
\* otherwise, the store then holding at least one record.
C26_ReturnsBoolean ==
    fpc = "done" =>
        /\ fetch_ret.t = "bool"
        /\ fetched_emails = <<>> => ~fetch_ret.b
        /\ fetch_ret.b => emails # <<>>

====
